---- MODULE Spec2Model ----
(***************************************************************************)
(* A model of the FameForecast TextView ingestion core:                    *)
(*   - TwitchLimiter       (twitch_chat_monitor/irc.py)                    *)
(*   - IRCShard.run        (twitch_chat_monitor/irc.py)                    *)
(*   - the shard/worker orchestration of twitch_monitor_web.py             *)
(*   - the subscriber lifecycle of web/socket_events.py                    *)
(*   - the shutdown paths of twitch_monitor_web.main                       *)
(*   - the backpressure of audio_worker (twitch_chat_monitor/audio.py)     *)
(*   - the outgoing and incoming blocks of IRCShard.run, the line parsers  *)
(*     and IRCShard.cleanup (twitch_chat_monitor/irc.py)                   *)
(*   - QueueBridge (twitch_chat_monitor/web/queue_bridge.py)               *)
(* The limiter's times are integers in tenths of a second (1.6 s = 16),    *)
(* the sessions' delays are in seconds.  Channel names are integers whose  *)
(* order is the lexicographic order of the names.                          *)
(***************************************************************************)
EXTENDS Integers, Sequences, FiniteSets, TLC

VARIABLES
    \* ---- TwitchLimiter
    limiter,        \* the fields of one TwitchLimiter object
    now,            \* the value time.time() returns
    allowed,        \* history: the times of the calls that returned True
    \* ---- sessions (IRCShard threads) and the queues they share
    sess,           \* session id -> the fields of one IRCShard thread
    control_queue,  \* number of "SHUTDOWN" items on context.control_queue
    send_queue,     \* context.send_queue: sequence of <<channel, msg>>
    netFails,       \* the most consecutive failures the network may produce
    \* ---- orchestration (twitch_monitor_web.main)
    active_channels,
    channels_with_workers,
    shards,         \* the list `shards`: sequence of session ids
    audio_procs,    \* the dict audio_procs: channel -> process id
    procs,          \* process id -> [kind, chan, alive]; its domain is `processes`
    thr,            \* "jp": the process_join_requests thread, "mon": monitor_loop
    joinsLeft,      \* join/select requests the environment may still make
    offlineLeft,    \* polls reporting a channel offline that may still happen
    boot,           \* how far the shutdown of the process has come
    sentinels_put,  \* number of "SHUTDOWN" items put at process shutdown
    \* ---- subscriber lifecycle (web/socket_events.py)
    connected_clients,
    shutdown_timer, \* the global _shutdown_timer: a timer id or None
    timers,         \* timer id -> "pending" | "cancelled" | "fired"
    handlers,       \* sid -> position of that client's connect/disconnect handler
    exited,         \* os._exit was called
    connectsLeft,   \* connections the clients may still open
    armedEmpty,     \* history: every disconnect that armed a timer saw no client
    \* ---- audio capture (twitch_chat_monitor/audio.py)
    audio_queue,    \* number of chunks on context.audio_queue
    capture,        \* capture worker id -> its position in the read loop
    \* ---- the outgoing block of IRCShard.run (irc.py:171-192)
    sender,         \* session id -> the session's side of the send path
    produced,       \* chat requests put on the send queue so far
    \* ---- threads calling allow() on one limiter (irc.py:50-74)
    lock,           \* self.lock: the thread holding it, or None
    callers,        \* thread id -> its position inside allow()
    \* ---- the incoming block of IRCShard.run (irc.py:194-222)
    rx,             \* the receiving session: buffer, counters, presence sets
    gui_queue,      \* context.gui_queue: the events put so far
    handled,        \* history: what each complete line made the session do
    sent,           \* history: the lines the server has sent
    inflight,       \* the server's bytes the session has not read yet
    \* ---- IRCShard.cleanup (irc.py:233-251)
    closer,         \* session id -> the session's fields while it closes
    files,          \* the metrics snapshots written, in order
    \* ---- QueueBridge (web/queue_bridge.py)
    bridge,         \* the fields of the QueueBridge and its thread's position
    emitted,        \* the socketio.emit calls made so far, in order
    arrived,        \* history: the items put on context.gui_queue, in order
    dequeued,       \* history: the items the bridge got, with their emissions
    \* ---- the transcription worker (twitch_monitor_web.py:452-471)
    whisper_started,
    whisper_exit,   \* history: why the transcription worker returned
    \* ---- the live-status poll of monitor_loop (twitch_monitor_web.py:377-409)
    last_poll,      \* history: the outcome of the latest poll
    \* ---- subscribers' send requests (web/socket_events.py)
    requests,        \* history: the send_chat events the subscribers emitted
    \* ---- the connections of one session (irc.py:158-231, 253-264)
    link,           \* one IRCShard: its thread position, socket, line buffer
    socks,          \* socket id -> "open" | "closed"
    wire,           \* bytes the server wrote that the session has not read
    got,            \* history: the bytes read on the current connection
    dispatched,      \* history: the lines given to the parsers
    \* ---- the state the sessions share (twitch_monitor_web.py:61, irc.py:178)
    bot_state,       \* context.bot_state: channel -> last message sent and its time
    \* ---- dynamic membership (irc.py:116-156)
    member,          \* one IRCShard: its socket, channel list and presence sets
    \* ---- QueueBridge.start and stop (web/queue_bridge.py:31-45)
    qb,             \* the QueueBridge object: running, thread, and its caller in stop()
    loops           \* thread id -> position of that _poll_loop thread

limVars  == <<limiter, now, allowed>>
sessVars == <<sess, control_queue, send_queue, netFails>>
orchVars == <<active_channels, channels_with_workers, shards, audio_procs,
              procs, thr, joinsLeft, offlineLeft, boot, sentinels_put>>
sockVars == <<connected_clients, shutdown_timer, timers, handlers, exited,
              connectsLeft, armedEmpty>>
capVars  == <<audio_queue, capture>>
\* the components that run beside the limiter, the sessions, the
\* orchestration and the subscriber lifecycle
outVars  == <<sender, produced>>
lockVars == <<lock, callers>>
inVars   == <<rx, gui_queue, handled, sent, inflight>>
closeVars == <<closer, files>>
bridgeVars == <<bridge, emitted, arrived, dequeued>>
whisperVars == <<whisper_started, whisper_exit>>
monVars  == <<last_poll>>
reqVars  == <<requests>>
linkVars == <<link, socks, wire, got, dispatched>>
botVars == <<bot_state>>
memberVars == <<member>>
lifeVars == <<qb, loops>>
extVars  == <<capVars, outVars, lockVars, inVars, closeVars, bridgeVars,
              whisperVars, monVars, reqVars,
              linkVars,
              botVars,
              memberVars,
              lifeVars>>
\* the same without one of them
notCap   == <<outVars, lockVars, inVars, closeVars, bridgeVars,
              whisperVars, monVars, reqVars,
              linkVars,
              botVars,
              memberVars,
              lifeVars>>
notOut   == <<capVars, lockVars, inVars, closeVars, bridgeVars,
              whisperVars, monVars, reqVars,
              linkVars,
              botVars,
              memberVars,
              lifeVars>>
notLock  == <<capVars, outVars, inVars, closeVars, bridgeVars,
              whisperVars, monVars, reqVars,
              linkVars,
              botVars,
              memberVars,
              lifeVars>>
notIn    == <<capVars, outVars, lockVars, closeVars, bridgeVars,
              whisperVars, monVars, reqVars,
              linkVars,
              botVars,
              memberVars,
              lifeVars>>
notClose == <<capVars, outVars, lockVars, inVars, bridgeVars,
              whisperVars, monVars, reqVars,
              linkVars,
              botVars,
              memberVars,
              lifeVars>>
notBridge == <<capVars, outVars, lockVars, inVars, closeVars,
              whisperVars, monVars, reqVars,
              linkVars,
              botVars,
              memberVars,
              lifeVars>>
notWhisper == <<capVars, outVars, lockVars, inVars, closeVars, bridgeVars,
                monVars, reqVars,
              linkVars,
              botVars,
              memberVars,
              lifeVars>>
notMon   == <<capVars, outVars, lockVars, inVars, closeVars, bridgeVars,
              whisperVars, reqVars,
              linkVars,
              botVars,
              memberVars,
              lifeVars>>
notReq   == <<capVars, outVars, lockVars, inVars, closeVars, bridgeVars,
              whisperVars, monVars,
              linkVars,
              botVars,
              memberVars,
              lifeVars>>
notLink == <<capVars, outVars, lockVars, inVars, closeVars, bridgeVars,
              whisperVars, monVars, reqVars,
              botVars,
              memberVars,
              lifeVars>>
notBot == <<capVars, outVars, lockVars, inVars, closeVars, bridgeVars,
              whisperVars, monVars, reqVars, linkVars,
              memberVars,
              lifeVars>>
notMember == <<capVars, outVars, lockVars, inVars, closeVars, bridgeVars,
              whisperVars, monVars, reqVars, linkVars, botVars,
              lifeVars>>
notLife == <<capVars, outVars, lockVars, inVars, closeVars, bridgeVars,
              whisperVars, monVars, reqVars, linkVars, botVars, memberVars>>
vars     == <<limVars, sessVars, orchVars, sockVars, extVars>>

\* _shutdown_timer = None: timer ids start at 1
None == 0

Min(a, b) == IF a < b THEN a ELSE b

RECURSIVE Pow2(_)
Pow2(n) == IF n <= 0 THEN 1 ELSE 2 * Pow2(n - 1)

(***************************************************************************)
(*                              TwitchLimiter                              *)
(***************************************************************************)
\* irc.py:18-20, in tenths of a second
MSG_LIMIT     == 20
MSG_WINDOW    == 300
MIN_MSG_DELAY == 16

\* model bounds of the limiter runs
ClockStart == 400          \* time.time() at construction
MaxTime    == 7            \* the clock runs from ClockStart to ClockStart+MaxTime
MaxCalls   == 7            \* allow() calls per run
MaxLimit   == 2
MaxWindow  == 3
MaxMinDelay == 2

\* constructor arguments <<limit, window, min_delay>>: small ones, where the
\* window fills, and the defaults IRCShard uses
LimiterParams ==
    ((1..MaxLimit) \X (1..MaxWindow) \X (0..MaxMinDelay))
        \cup {<<MSG_LIMIT, MSG_WINDOW, MIN_MSG_DELAY>>}

\* TwitchLimiter.__init__
NewLimiter(limit, window, min_delay) ==
    [limit |-> limit, window |-> window, min_delay |-> min_delay,
     events |-> <<>>, last_message |-> 0,
     metrics |-> [total_attempts |-> 0, allowed_messages |-> 0,
                  rate_limited |-> 0, min_delay_blocked |-> 0]]

MinDelayIgnored(l, t) == FALSE
\* `now - self.last_message < self.min_delay`
MinDelayBlocks(l, t) == t - l.last_message < l.min_delay

\* `while self.events and now - self.events[0] > self.window: popleft()`
RECURSIVE Evict(_, _, _)
Evict(ev, t, w) ==
    IF ev # <<>> /\ t - Head(ev) > w THEN Evict(Tail(ev), t, w) ELSE ev

WindowHasRoomOffByOne(ev, limit) == Len(ev) <= limit
\* `len(self.events) < self.limit`
WindowHasRoom(ev, limit) == Len(ev) < limit

\* TwitchLimiter.allow at time t: <<the limiter afterwards, the result>>
AllowAt(l, t) ==
    LET m1 == [l.metrics EXCEPT !.total_attempts = @ + 1] IN
    IF MinDelayBlocks(l, t)
    THEN <<[l EXCEPT !.metrics = [m1 EXCEPT !.min_delay_blocked = @ + 1]], FALSE>>
    ELSE LET ev == Evict(l.events, t, l.window) IN
         IF WindowHasRoom(ev, l.limit)
         THEN <<[l EXCEPT !.events = Append(ev, t), !.last_message = t,
                          !.metrics = [m1 EXCEPT !.allowed_messages = @ + 1]],
                TRUE>>
         ELSE <<[l EXCEPT !.events = ev,
                          !.metrics = [m1 EXCEPT !.rate_limited = @ + 1]],
                FALSE>>

\* one call of allow() on the limiter
Allow ==
    /\ limiter.metrics.total_attempts < MaxCalls
    /\ LET r == AllowAt(limiter, now) IN
         /\ limiter' = r[1]
         /\ allowed' = IF r[2] THEN Append(allowed, now) ELSE allowed
    /\ UNCHANGED <<now, extVars, sessVars, orchVars, sockVars>>

\* the clock advances between calls
Tick ==
    /\ \E d \in 1..MaxTime :
         /\ now + d <= ClockStart + MaxTime
         /\ now' = now + d
    /\ UNCHANGED <<limiter, allowed, extVars, sessVars, orchVars, sockVars>>

\* ---- idle values of the other components
SessIdle ==
    /\ sess = <<>>
    /\ control_queue = 0
    /\ send_queue = <<>>
    /\ netFails = 0

OrchThreadsIdle ==
    /\ channels_with_workers = {}
    /\ audio_procs = <<>>
    /\ procs = <<>>
    /\ thr = <<>>
    /\ joinsLeft = 0
    /\ offlineLeft = 0
    /\ boot = "off"
    /\ sentinels_put = 0

OrchIdle ==
    /\ active_channels = {}
    /\ shards = <<>>
    /\ OrchThreadsIdle

SockIdle ==
    /\ connected_clients = {}
    /\ shutdown_timer = None
    /\ timers = <<>>
    /\ handlers = <<>>
    /\ exited = FALSE
    /\ connectsLeft = 0
    /\ armedEmpty = TRUE

LimIdle ==
    /\ limiter = NewLimiter(MSG_LIMIT, MSG_WINDOW, MIN_MSG_DELAY)
    /\ now = ClockStart
    /\ allowed = <<>>

CapIdle ==
    /\ audio_queue = 0
    /\ capture = <<>>

OutIdle ==
    /\ sender = <<>>
    /\ produced = 0

LockIdle ==
    /\ lock = None
    /\ callers = <<>>

InIdle ==
    /\ rx = <<>>
    /\ gui_queue = <<>>
    /\ handled = <<>>
    /\ sent = <<>>
    /\ inflight = <<>>

CloseIdle ==
    /\ closer = <<>>
    /\ files = <<>>

BridgeIdle ==
    /\ bridge = <<>>
    /\ emitted = <<>>
    /\ arrived = <<>>
    /\ dequeued = <<>>

WhisperIdle ==
    /\ whisper_started = FALSE
    /\ whisper_exit = "none"

MonIdle == last_poll = <<>>

BotIdle ==
    /\ bot_state = <<>>

MemberIdle ==
    /\ member = <<>>

LifeIdle ==
    /\ qb = <<>>
    /\ loops = <<>>

ReqIdle == requests = <<>>

LinkIdle ==
    /\ link = <<>>
    /\ socks = <<>>
    /\ wire = <<>>
    /\ got = <<>>
    /\ dispatched = <<>>

NotLinkIdle ==
    /\ CapIdle
    /\ OutIdle
    /\ LockIdle
    /\ InIdle
    /\ CloseIdle
    /\ BridgeIdle
    /\ WhisperIdle
    /\ MonIdle
    /\ ReqIdle
                /\ BotIdle
                /\ MemberIdle
                /\ LifeIdle

NotBotIdle ==
    /\ CapIdle
    /\ OutIdle
    /\ LockIdle
    /\ InIdle
    /\ CloseIdle
    /\ BridgeIdle
    /\ WhisperIdle
    /\ MonIdle
    /\ ReqIdle
    /\ LinkIdle
                /\ MemberIdle
                /\ LifeIdle

NotMemberIdle ==
    /\ CapIdle
    /\ OutIdle
    /\ LockIdle
    /\ InIdle
    /\ CloseIdle
    /\ BridgeIdle
    /\ WhisperIdle
    /\ MonIdle
    /\ ReqIdle
    /\ LinkIdle
    /\ BotIdle
                /\ LifeIdle

NotLifeIdle ==
    /\ CapIdle
    /\ OutIdle
    /\ LockIdle
    /\ InIdle
    /\ CloseIdle
    /\ BridgeIdle
    /\ WhisperIdle
    /\ MonIdle
    /\ ReqIdle
    /\ LinkIdle
    /\ BotIdle
    /\ MemberIdle

ExtIdle == CapIdle /\ OutIdle /\ LockIdle /\ InIdle /\ CloseIdle /\ BridgeIdle
               /\ WhisperIdle /\ MonIdle /\ ReqIdle
                /\ LinkIdle
                /\ BotIdle
                /\ MemberIdle
                /\ LifeIdle
NotMonIdle == CapIdle /\ OutIdle /\ LockIdle /\ InIdle /\ CloseIdle /\ BridgeIdle
                  /\ WhisperIdle /\ ReqIdle
                /\ LinkIdle
                /\ BotIdle
                /\ MemberIdle
                /\ LifeIdle
NotBridgeIdle == CapIdle /\ OutIdle /\ LockIdle /\ InIdle /\ CloseIdle
                    /\ WhisperIdle /\ MonIdle /\ ReqIdle
                /\ LinkIdle
                /\ BotIdle
                /\ MemberIdle
                /\ LifeIdle
NotCapIdle   == OutIdle /\ LockIdle /\ InIdle /\ CloseIdle /\ BridgeIdle
                    /\ WhisperIdle /\ MonIdle /\ ReqIdle
                /\ LinkIdle
                /\ BotIdle
                /\ MemberIdle
                /\ LifeIdle
NotOutIdle   == CapIdle /\ LockIdle /\ InIdle /\ CloseIdle /\ BridgeIdle
                    /\ WhisperIdle /\ MonIdle /\ ReqIdle
                /\ LinkIdle
                /\ BotIdle
                /\ MemberIdle
                /\ LifeIdle
NotLockIdle  == CapIdle /\ OutIdle /\ InIdle /\ CloseIdle /\ BridgeIdle
                    /\ WhisperIdle /\ MonIdle /\ ReqIdle
                /\ LinkIdle
                /\ BotIdle
                /\ MemberIdle
                /\ LifeIdle
NotInIdle    == CapIdle /\ OutIdle /\ LockIdle /\ CloseIdle /\ BridgeIdle
                    /\ WhisperIdle /\ MonIdle /\ ReqIdle
                /\ LinkIdle
                /\ BotIdle
                /\ MemberIdle
                /\ LifeIdle
NotCloseIdle == CapIdle /\ OutIdle /\ LockIdle /\ InIdle /\ BridgeIdle
                    /\ WhisperIdle /\ MonIdle /\ ReqIdle
                /\ LinkIdle
                /\ BotIdle
                /\ MemberIdle
                /\ LifeIdle

InitLimiter ==
    /\ \E p \in LimiterParams : limiter = NewLimiter(p[1], p[2], p[3])
    /\ now = ClockStart
    /\ allowed = <<>>
    /\ SessIdle /\ OrchIdle /\ SockIdle /\ ExtIdle

NextLimiter == Allow \/ Tick

SpecLimiter == InitLimiter /\ [][NextLimiter]_vars

\* C1: for allow() calls at non-decreasing times, at most `limit` of the
\* successful calls fall inside any trailing window of `window` seconds, and
\* two consecutive successful calls are at least `min_delay` apart.
InWindow(t) == {i \in DOMAIN allowed : t - limiter.window <= allowed[i] /\ allowed[i] <= t}
C1_RateLimit ==
    /\ \A t \in ClockStart..now : Cardinality(InWindow(t)) <= limiter.limit
    /\ \A i \in 1..(Len(allowed) - 1) : allowed[i + 1] - allowed[i] >= limiter.min_delay

\* a call was refused by the full window, one by the minimum delay, and later
\* calls succeeded again after the window moved on
C1_Witness ==
    /\ limiter.metrics.rate_limited > 0
    /\ limiter.metrics.min_delay_blocked > 0
    /\ Len(allowed) > limiter.limit
    /\ Len(limiter.events) < Len(allowed)

(***************************************************************************)
(*                     Shard partition (rebuild_shards)                    *)
(***************************************************************************)
\* twitch_monitor_web.py:45
MAX_CHANNELS_PER_CONN == 10

\* sorted(context.active_channels)
\* channel names are numbered in their lexicographic order
Sorted(S) ==
    IF S = {} THEN <<>>
    ELSE LET top   == CHOOSE m \in S : \A y \in S : y <= m
             In(c) == c \in S
         IN  SelectSeq([i \in 1..top |-> i], In)

SliceOneShort(list, i) == SubSeq(list, i + 1, Min(i + MAX_CHANNELS_PER_CONN - 1, Len(list)))
\* channel_list[i:i + MAX_CHANNELS_PER_CONN], i counted from 0
Slice(list, i) == SubSeq(list, i + 1, Min(i + MAX_CHANNELS_PER_CONN, Len(list)))

\* the loop `for i in range(0, len(channel_list), MAX_CHANNELS_PER_CONN)`:
\* the non-empty slices in order
RECURSIVE SlicesFrom(_, _)
SlicesFrom(list, i) ==
    IF i >= Len(list) THEN <<>>
    ELSE (IF Slice(list, i) # <<>> THEN <<Slice(list, i)>> ELSE <<>>)
             \o SlicesFrom(list, i + MAX_CHANNELS_PER_CONN)

ShardGroups(list) == SlicesFrom(list, 0)

Range(f) == {f[i] : i \in DOMAIN f}

(***************************************************************************)
(*                        IRCShard (one session)                           *)
(* pc is the position of the session's thread in IRCShard.run:             *)
(*   "connecting"  in self.connect(...)                       (line 161)   *)
(*   "ctl"         at the head of the inner loop              (163-169)    *)
(*   "send"        at the outgoing block                      (171-192)    *)
(*   "recv"        at the incoming block                      (194-222)    *)
(*   "backoff"     in time.sleep(self.reconnect_delay)        (229)        *)
(*   "terminated"  after cleanup()                            (231)        *)
(***************************************************************************)
\* irc.py:230
MAX_RECONNECT_DELAY == 60

\* IRCShard.__init__, then start(): run() enters the outer loop and connects.
\* fails, backoffs, wait, cause and skipped are history fields:
\*   fails     failed connect() calls since the last successful one
\*   backoffs  sleeps of line 229 since the last successful connect()
\*   wait      the delay slept by the current or latest sleep, cause its reason
\*   skipped   iterations of the outer loop that ended, with a sentinel on
\*             the control queue when they began, without reading the queue
NewShard(channels) ==
    [channels |-> channels, running |-> TRUE, pc |-> "connecting",
     reconnect_delay |-> 1,
     fails |-> 0, backoffs |-> 0, wait |-> 0, cause |-> "none",
     sawSentinel |-> FALSE, skipped |-> 0]

Live(s) == sess[s].pc # "terminated"

NextDelayUncapped(d) == d * 2
\* `self.reconnect_delay = min(self.reconnect_delay * 2, 60)`
NextDelay(d) == Min(d * 2, MAX_RECONNECT_DELAY)

\* the `except Exception` of lines 223-230 is entered: sleep(reconnect_delay)
EnterBackoff(r, why) ==
    [r EXCEPT !.pc = "backoff", !.wait = r.reconnect_delay, !.cause = why,
              !.backoffs = @ + 1,
              !.fails = IF why = "connect" THEN @ + 1 ELSE @]

\* control leaves the inner loop (break, or its condition is false): the
\* outer `while self.running` either reconnects or ends in cleanup()
LeaveInnerLoop(r) ==
    [r EXCEPT !.pc = IF r.running THEN "connecting" ELSE "terminated",
              !.sawSentinel = r.running /\ control_queue > 0]

\* bound of the history field skipped
ShutdownIterBound == 2

\* a session that ended and that the list `shards` no longer names is
\* unreachable: it is dropped
Reap(f) ==
    [s \in {x \in DOMAIN f : f[x].pc # "terminated" \/ x \in Range(shards)} |-> f[s]]

\* self.connect(self.channels) returns or raises
Connect(s) ==
    /\ s \in DOMAIN sess
    /\ sess[s].pc = "connecting"
    /\ \E ok \in BOOLEAN :
         IF ok
         THEN \* line 162, then the inner loop's condition
              sess' = Reap([sess EXCEPT ![s] =
                  IF @.running
                  THEN [@ EXCEPT !.reconnect_delay = 1, !.pc = "ctl",
                                 !.fails = 0, !.backoffs = 0]
                  ELSE [@ EXCEPT !.reconnect_delay = 1, !.pc = "terminated",
                                 !.fails = 0, !.backoffs = 0]])
         ELSE /\ sess[s].backoffs < netFails
              /\ sess' = [sess EXCEPT ![s] = EnterBackoff(@, "connect")]
    /\ UNCHANGED <<control_queue, send_queue, netFails>>
    /\ UNCHANGED <<limVars, extVars, orchVars, sockVars>>

\* the sleep of line 229 ends; line 230; the outer loop's condition
BackoffWake(s) ==
    /\ s \in DOMAIN sess
    /\ sess[s].pc = "backoff"
    /\ LET r == sess[s] IN
       sess' = Reap([sess EXCEPT ![s] =
           [r EXCEPT !.reconnect_delay = NextDelay(r.reconnect_delay),
                     !.wait = 0, !.cause = "none",
                     !.pc = IF r.running THEN "connecting" ELSE "terminated",
                     !.skipped = IF r.sawSentinel /\ control_queue > 0
                                 THEN Min(r.skipped + 1, ShutdownIterBound + 1)
                                 ELSE 0,
                     !.sawSentinel = r.running /\ control_queue > 0]])
    /\ UNCHANGED <<control_queue, send_queue, netFails>>
    /\ UNCHANGED <<limVars, extVars, orchVars, sockVars>>

\* lines 163-169: the inner loop's condition, then control_queue.get_nowait()
CheckControl(s) ==
    /\ s \in DOMAIN sess
    /\ sess[s].pc = "ctl"
    /\ IF ~sess[s].running
       THEN /\ sess' = Reap([sess EXCEPT ![s] = LeaveInnerLoop(@)])
            /\ UNCHANGED control_queue
       ELSE IF control_queue > 0
       THEN \* "SHUTDOWN": running = False, break
            /\ control_queue' = control_queue - 1
            /\ sess' = [sess EXCEPT ![s] =
                   [@ EXCEPT !.running = FALSE, !.pc = "terminated", !.skipped = 0]]
       ELSE /\ sess' = [sess EXCEPT ![s] = [@ EXCEPT !.pc = "send", !.skipped = 0]]
            /\ UNCHANGED control_queue
    /\ UNCHANGED <<send_queue, netFails>>
    /\ UNCHANGED <<limVars, extVars, orchVars, sockVars>>

\* lines 171-192: send_queue.get_nowait(), wait for the limiter, sock.send.
\* A raising sock.send is not caught by `except queue.Empty`: it reaches the
\* handler of line 223.  A socket closed by stop() always raises.
Send(s) ==
    /\ s \in DOMAIN sess
    /\ sess[s].pc = "send"
    /\ IF send_queue = <<>>
       THEN /\ sess' = [sess EXCEPT ![s].pc = "recv"]
            /\ UNCHANGED send_queue
       ELSE /\ send_queue' = Tail(send_queue)
            /\ \E ok \in BOOLEAN :
                 IF ok
                 THEN /\ sess[s].running
                      /\ sess' = [sess EXCEPT ![s].pc = "recv"]
                 ELSE /\ sess[s].backoffs < netFails \/ ~sess[s].running
                      /\ sess' = [sess EXCEPT ![s] = EnterBackoff(@, "send")]
    /\ UNCHANGED <<control_queue, netFails>>
    /\ UNCHANGED <<limVars, extVars, orchVars, sockVars>>

RecvOutcomes == {"timeout", "data", "closed", "error"}

\* lines 194-222: sock.recv with a 0.1 s timeout.  A timeout or data goes on
\* to the next iteration; an empty read or an error breaks out of the inner
\* loop.  A socket closed by stop() raises.
Recv(s) ==
    /\ s \in DOMAIN sess
    /\ sess[s].pc = "recv"
    /\ \E out \in RecvOutcomes :
         /\ ~sess[s].running => out = "error"
         /\ sess' = Reap([sess EXCEPT ![s] =
                IF out \in {"timeout", "data"}
                THEN [@ EXCEPT !.pc = "ctl"]
                ELSE LeaveInnerLoop(@)])
    /\ UNCHANGED <<control_queue, send_queue, netFails>>
    /\ UNCHANGED <<limVars, extVars, orchVars, sockVars>>

StopIgnored(r) == r
\* IRCShard.stop(): running = False and the socket is closed
StopShard(r) == [r EXCEPT !.running = FALSE]

\* ---- the environment of a set of sessions
MaxSentinels   == 2        \* sentinels put on the control queue
MaxNetFails    == 8        \* consecutive failures in the single-session runs
SessNetFails   == 3        \* the same with two sessions
NumSessions    == 2
MaxSessionIds  == 4        \* ids of the sessions that take steps
SessIds        == 1..MaxSessionIds

\* context.control_queue.put("SHUTDOWN")
PutShutdown ==
    /\ control_queue < MaxSentinels
    /\ control_queue' = control_queue + 1
    /\ UNCHANGED <<sess, send_queue, netFails>>
    /\ UNCHANGED <<limVars, extVars, orchVars, sockVars>>

\* shard.stop() called on a session
Stop(s) ==
    /\ s \in DOMAIN sess
    /\ sess[s].running
    /\ sess' = [sess EXCEPT ![s] = StopShard(@)]
    /\ UNCHANGED <<control_queue, send_queue, netFails>>
    /\ UNCHANGED <<limVars, extVars, orchVars, sockVars>>

\* the sessions rebuild_shards starts for the channels 1..n
ShardsFor(n) ==
    LET g == ShardGroups(Sorted(1..n)) IN [k \in DOMAIN g |-> NewShard(g[k])]

InitSessions(n, fails) ==
    /\ active_channels = 1..n
    /\ sess = ShardsFor(n)
    /\ shards = [k \in DOMAIN sess |-> k]
    /\ control_queue = 0
    /\ send_queue = <<>>
    /\ netFails = fails
    /\ LimIdle /\ OrchThreadsIdle /\ SockIdle /\ ExtIdle

\* Nothing puts an item on context.send_queue: its only producer,
\* handle_send_chat (web/socket_events.py:65-76), is nested in
\* _trigger_shutdown behind os._exit(0) and is never registered.
NextSession ==
    \/ \E s \in SessIds : Connect(s)
    \/ \E s \in SessIds : BackoffWake(s)
    \/ \E s \in SessIds : CheckControl(s)
    \/ \E s \in SessIds : Send(s)
    \/ \E s \in SessIds : Recv(s)
    \/ \E s \in SessIds : Stop(s)
    \/ PutShutdown

\* one session owning a full shard
SpecBackoff == InitSessions(MAX_CHANNELS_PER_CONN, MaxNetFails) /\ [][NextSession]_vars

\* NumSessions sessions: full shards and a last one with a single channel
SpecSession ==
    /\ InitSessions(MAX_CHANNELS_PER_CONN * (NumSessions - 1) + 1, SessNetFails)
    /\ [][NextSession]_vars

\* C6: the k-th consecutive failed connection attempt waits min(2^(k-1), 60)
\* seconds, the reconnect delay stays within [1, 60], and a successful
\* connection resets the delay to 1, so the next failure waits 1 second.
C6_Backoff ==
    \A s \in DOMAIN sess :
        /\ sess[s].reconnect_delay \in 1..MAX_RECONNECT_DELAY
        /\ sess[s].pc \in {"ctl", "send", "recv"}
               => sess[s].reconnect_delay = 1 /\ sess[s].fails = 0
        /\ sess[s].pc = "backoff"
               => /\ sess[s].cause = "connect"
                  /\ sess[s].wait = Min(Pow2(sess[s].fails - 1), MAX_RECONNECT_DELAY)
        /\ sess[s].pc = "connecting"
               => sess[s].reconnect_delay = Min(Pow2(sess[s].fails), MAX_RECONNECT_DELAY)

\* a chain of failed connection attempts ran up to the cap
C6_Witness ==
    \E s \in DOMAIN sess :
        /\ sess[s].pc = "backoff"
        /\ sess[s].fails = 8
        /\ sess[s].wait = MAX_RECONNECT_DELAY

\* C7: once a shutdown sentinel is on the control queue, a session reads the
\* control queue in every loop iteration, so it never completes more than
\* ShutdownIterBound iterations with the sentinel unread.
C7_ChecksEveryIteration ==
    \A s \in DOMAIN sess : Live(s) => sess[s].skipped <= ShutdownIterBound

(***************************************************************************)
(*          Orchestration: twitch_monitor_web.main and web/routes.py       *)
(* Two daemon threads call rebuild_shards() and update_audio_workers():    *)
(* process_join_requests ("jp") and monitor_loop ("mon").  Neither holds a *)
(* lock, so their statements interleave.  thr[t].pc is the position of     *)
(* thread t:                                                               *)
(*   "jp_sleep"   time.sleep(0.5) at the head of process_join_requests     *)
(*   "jp_pick"    the loop `for ch in channels_needing_workers`            *)
(*   "jp_done"    handle_join_channel returned: channels_with_workers.add  *)
(*   "mon_sleep"  time.sleep(60) at the head of monitor_loop               *)
(*   "mon_done"   the pass of monitor_loop that went offline has ended     *)
(*   "rb_stop", "rb_join", "rb_clear", "rb_start"        in rebuild_shards *)
(*   "ua_snap", "ua_stop", "ua_start"               in update_audio_workers*)
(***************************************************************************)
NumChannels == 2
Channels    == 1..NumChannels
MaxJoins    == 2           \* join/select requests in one run
MaxOffline  == 1           \* polls that report a channel offline

\* twitch_monitor_web.py:245, seconds
JOIN_TIMEOUT == 5

Threads == {"jp", "mon"}

NewThread(pc) ==
    [pc |-> pc, need |-> {}, ch |-> 0, list |-> <<>>, cur |-> {},
     off |-> {}]

Owners(c) == {s \in DOMAIN sess : Live(s) /\ c \in Range(sess[s].channels)}

\* ---- web/routes.py
\* join_channel: context.active_channels.add(channel)
JoinRoute(c) ==
    /\ joinsLeft > 0
    /\ c \notin active_channels
    /\ active_channels' = active_channels \cup {c}
    /\ joinsLeft' = joinsLeft - 1
    /\ UNCHANGED <<channels_with_workers, shards, audio_procs, procs, thr,
                   offlineLeft, boot, sentinels_put>>
    /\ UNCHANGED <<limVars, extVars, sessVars, sockVars>>

\* select_channels_api: every channel of the request is added
SelectRoute(S) ==
    /\ joinsLeft > 0
    /\ S # {} /\ ~(S \subseteq active_channels)
    /\ active_channels' = active_channels \cup S
    /\ joinsLeft' = joinsLeft - 1
    /\ UNCHANGED <<channels_with_workers, shards, audio_procs, procs, thr,
                   offlineLeft, boot, sentinels_put>>
    /\ UNCHANGED <<limVars, extVars, sessVars, sockVars>>

\* ---- process_join_requests
\* `context.active_channels - channels_with_workers`
NeedingWorkers(active, withWorkers) == active \ withWorkers

\* lines 432-437: one scan after the sleep
JPScan ==
    /\ thr["jp"].pc = "jp_sleep"
    /\ LET need == NeedingWorkers(active_channels, channels_with_workers) IN
         /\ need # {}
         /\ thr' = [thr EXCEPT !["jp"] = [@ EXCEPT !.pc = "jp_pick", !.need = need]]
    /\ UNCHANGED <<active_channels, channels_with_workers, shards, audio_procs,
                   procs, joinsLeft, offlineLeft, boot, sentinels_put>>
    /\ UNCHANGED <<limVars, extVars, sessVars, sockVars>>

\* lines 439-440 and 283-284: the next channel of the loop enters
\* handle_join_channel, which adds it to the active set if it is missing;
\* after the last channel the thread sleeps again
JPPick ==
    /\ thr["jp"].pc = "jp_pick"
    /\ IF thr["jp"].need = {}
       THEN /\ thr' = [thr EXCEPT !["jp"] = NewThread("jp_sleep")]
            /\ UNCHANGED active_channels
       ELSE \E ch \in thr["jp"].need :
              /\ active_channels' = active_channels \cup {ch}
              /\ thr' = [thr EXCEPT !["jp"] =
                     [@ EXCEPT !.pc = "rb_stop", !.ch = ch, !.need = @ \ {ch}]]
    /\ UNCHANGED <<channels_with_workers, shards, audio_procs, procs, joinsLeft,
                   offlineLeft, boot, sentinels_put>>
    /\ UNCHANGED <<limVars, extVars, sessVars, sockVars>>

\* lines 289 and 441: handle_join_channel returned
JPDone ==
    /\ thr["jp"].pc = "jp_done"
    /\ channels_with_workers' = channels_with_workers \cup {thr["jp"].ch}
    /\ thr' = [thr EXCEPT !["jp"] = [@ EXCEPT !.pc = "jp_pick", !.ch = 0]]
    /\ UNCHANGED <<active_channels, shards, audio_procs, procs, joinsLeft,
                   offlineLeft, boot, sentinels_put>>
    /\ UNCHANGED <<limVars, extVars, sessVars, sockVars>>

\* ---- monitor_loop
AliveProcs == {p \in DOMAIN procs : procs[p].alive}

\* lines 377-409, a poll that reports the channels `off` of the active set
\* as not live: they are discarded, and a rebuild follows
MonPoll(off) ==
    /\ thr["mon"].pc = "mon_sleep"
    /\ off # {} /\ off \subseteq active_channels
    /\ offlineLeft > 0
    /\ offlineLeft' = offlineLeft - 1
    /\ active_channels' = active_channels \ off
    /\ thr' = [thr EXCEPT !["mon"] =
           [@ EXCEPT !.pc = "rb_stop", !.off = off]]
    /\ UNCHANGED <<channels_with_workers, shards, audio_procs, procs, joinsLeft,
                   boot, sentinels_put>>
    /\ UNCHANGED <<limVars, extVars, sessVars, sockVars>>

\* the pass is over: back to time.sleep(60)
MonDone ==
    /\ thr["mon"].pc = "mon_done"
    /\ thr' = [thr EXCEPT !["mon"] = NewThread("mon_sleep")]
    /\ UNCHANGED <<active_channels, channels_with_workers, shards, audio_procs,
                   procs, joinsLeft, offlineLeft, boot, sentinels_put>>
    /\ UNCHANGED <<limVars, extVars, sessVars, sockVars>>

\* ---- rebuild_shards, run by thread t
\* a session can still be alive when join(timeout=5) returns: nobody stopped
\* it (the other thread appended it after this thread's stop loop), it is
\* inside socket.connect(), or in a backoff sleep longer than the timeout
CanOutlastJoin(r) ==
    \/ r.running
    \/ r.pc = "connecting"
    \/ r.pc = "backoff" /\ r.wait > JOIN_TIMEOUT

\* lines 241-242: `for shard in shards: shard.stop()`
RebuildStop(t) ==
    /\ thr[t].pc = "rb_stop"
    /\ sess' = [s \in DOMAIN sess |->
                   IF s \in Range(shards) THEN StopShard(sess[s]) ELSE sess[s]]
    /\ thr' = [thr EXCEPT ![t].pc = "rb_join"]
    /\ UNCHANGED <<control_queue, send_queue, netFails>>
    /\ UNCHANGED <<active_channels, channels_with_workers, shards, audio_procs,
                   procs, joinsLeft, offlineLeft, boot, sentinels_put>>
    /\ UNCHANGED <<limVars, extVars, sockVars>>

\* lines 243-245: every session of the list has ended or its join timed out
RebuildJoin(t) ==
    /\ thr[t].pc = "rb_join"
    /\ \A s \in Range(shards) : ~Live(s) \/ CanOutlastJoin(sess[s])
    /\ thr' = [thr EXCEPT ![t].pc = "rb_clear"]
    /\ UNCHANGED <<active_channels, channels_with_workers, shards, audio_procs,
                   procs, joinsLeft, offlineLeft, boot, sentinels_put>>
    /\ UNCHANGED <<limVars, extVars, sessVars, sockVars>>

\* lines 246-250: shards.clear(); channel_list = sorted(active_channels)
RebuildClear(t) ==
    /\ thr[t].pc = "rb_clear"
    /\ shards' = <<>>
    /\ sess' = [s \in {x \in DOMAIN sess : Live(x)} |-> sess[s]]
    /\ thr' = [thr EXCEPT ![t] =
           [@ EXCEPT !.pc = "rb_start", !.list = Sorted(active_channels)]]
    /\ UNCHANGED <<control_queue, send_queue, netFails>>
    /\ UNCHANGED <<active_channels, channels_with_workers, audio_procs, procs,
                   joinsLeft, offlineLeft, boot, sentinels_put>>
    /\ UNCHANGED <<limVars, extVars, sockVars>>

\* the k smallest ids no session uses
RECURSIVE FreshIds(_, _)
FreshIds(used, k) ==
    IF k = 0 THEN <<>>
    ELSE LET i == CHOOSE x \in 1..(Cardinality(used) + 1) : x \notin used
         IN  <<i>> \o FreshIds(used \cup {i}, k - 1)

\* lines 251-258 for the groups g: one IRCShard per group is created,
\* started and appended to the list: <<sessions afterwards, list afterwards>>
StartShards(f, list, g) ==
    LET ids == FreshIds(DOMAIN f, Len(g)) IN
    <<[s \in DOMAIN f \cup Range(ids) |->
          IF s \in DOMAIN f THEN f[s]
          ELSE NewShard(g[CHOOSE k \in DOMAIN ids : ids[k] = s])],
      list \o ids>>

RebuildStart(t) ==
    /\ thr[t].pc = "rb_start"
    /\ LET r == StartShards(sess, shards, ShardGroups(thr[t].list)) IN
         /\ sess' = r[1]
         /\ shards' = r[2]
    /\ thr' = [thr EXCEPT ![t] = [@ EXCEPT !.pc = "ua_snap", !.list = <<>>]]
    /\ UNCHANGED <<control_queue, send_queue, netFails>>
    /\ UNCHANGED <<active_channels, channels_with_workers, audio_procs, procs,
                   joinsLeft, offlineLeft, boot, sentinels_put>>
    /\ UNCHANGED <<limVars, extVars, sockVars>>

\* ---- update_audio_workers, run by thread t
\* line 261: current = set(audio_procs.keys())
WorkersSnapshot(t) ==
    /\ thr[t].pc = "ua_snap"
    /\ thr' = [thr EXCEPT ![t] = [@ EXCEPT !.pc = "ua_stop", !.cur = DOMAIN audio_procs]]
    /\ UNCHANGED <<active_channels, channels_with_workers, shards, audio_procs,
                   procs, joinsLeft, offlineLeft, boot, sentinels_put>>
    /\ UNCHANGED <<limVars, extVars, sessVars, sockVars>>

\* the except clause of the calling loop (lines 447, 419): the pass is abandoned
AfterException(t) == IF t = "jp" THEN "jp_sleep" ELSE "mon_sleep"
AfterUpdate(t)    == IF t = "jp" THEN "jp_done" ELSE "mon_done"

\* `current - needed`
ToStop(cur, needed) == cur \ needed

\* lines 264-267: terminate, join and delete the workers of the channels no
\* longer needed.  A channel the other thread already deleted raises KeyError
\* after the channels `done` were handled.
WorkersStop(t) ==
    /\ thr[t].pc = "ua_stop"
    /\ LET stop == ToStop(thr[t].cur, active_channels)
           here == stop \cap DOMAIN audio_procs
       IN  \E done \in SUBSET here :
             /\ stop \subseteq DOMAIN audio_procs => done = here
             /\ procs' = [p \in DOMAIN procs |->
                    IF \E c \in done : audio_procs[c] = p
                    THEN [procs[p] EXCEPT !.alive = FALSE] ELSE procs[p]]
             /\ audio_procs' = [c \in DOMAIN audio_procs \ done |-> audio_procs[c]]
             /\ thr' = [thr EXCEPT ![t] =
                    IF stop \subseteq DOMAIN audio_procs
                    THEN [@ EXCEPT !.pc = "ua_start"]
                    ELSE NewThread(AfterException(t))]
    /\ UNCHANGED <<active_channels, channels_with_workers, shards, joinsLeft,
                   offlineLeft, boot, sentinels_put>>
    /\ UNCHANGED <<limVars, extVars, sessVars, sockVars>>

\* lines 269-278 for the channels cs: one process per channel is started,
\* stored in audio_procs and appended to processes:
\* <<audio_procs afterwards, processes afterwards>>
StartWorkers(ap, ps, cs) ==
    LET base  == Cardinality(DOMAIN ps)
        order == Sorted(cs)
        id(c) == base + Cardinality({x \in cs : x <= c})
    IN  <<[c \in DOMAIN ap \cup cs |-> IF c \in cs THEN id(c) ELSE ap[c]],
          [p \in 1..(base + Cardinality(cs)) |->
              IF p <= base THEN ps[p]
              ELSE [kind |-> "audio", alive |-> TRUE, chan |-> order[p - base]]]>>

\* `needed - current`: needed is the live set, current the snapshot
WorkersStart(t) ==
    /\ thr[t].pc = "ua_start"
    /\ LET r == StartWorkers(audio_procs, procs, active_channels \ thr[t].cur) IN
         /\ audio_procs' = r[1]
         /\ procs' = r[2]
    /\ thr' = [thr EXCEPT ![t] = [@ EXCEPT !.pc = AfterUpdate(t), !.cur = {}]]
    /\ UNCHANGED <<active_channels, channels_with_workers, shards, joinsLeft,
                   offlineLeft, boot, sentinels_put>>
    /\ UNCHANGED <<limVars, extVars, sessVars, sockVars>>

InitOrch ==
    /\ active_channels = {}
    /\ channels_with_workers = {}
    /\ shards = <<>>
    /\ audio_procs = <<>>
    /\ procs = <<>>
    /\ thr = [t \in Threads |-> NewThread(IF t = "jp" THEN "jp_sleep" ELSE "mon_sleep")]
    /\ joinsLeft = MaxJoins
    /\ offlineLeft = MaxOffline
    /\ boot = "off"
    /\ sentinels_put = 0
    /\ sess = <<>>
    /\ control_queue = 0
    /\ send_queue = <<>>
    /\ netFails = 0            \* here every connect() succeeds, sooner or later
    /\ LimIdle /\ SockIdle /\ ExtIdle

ThreadStep(t) ==
    \/ RebuildStop(t)
    \/ RebuildJoin(t)
    \/ RebuildClear(t)
    \/ RebuildStart(t)
    \/ WorkersSnapshot(t)
    \/ WorkersStop(t)
    \/ WorkersStart(t)

JPStep  == JPScan \/ JPPick \/ JPDone \/ ThreadStep("jp")
MonStep == MonDone \/ ThreadStep("mon")

\* one iteration of the inner loop of IRCShard.run (lines 163-222) while the
\* send queue is empty: the statements of CheckControl, Send and Recv in a row
LoopIteration(s) ==
    /\ s \in DOMAIN sess
    /\ sess[s].pc = "ctl"
    /\ send_queue = <<>>
    /\ IF sess[s].running /\ control_queue > 0
       THEN /\ control_queue' = control_queue - 1
            /\ sess' = Reap([sess EXCEPT ![s] =
                   [@ EXCEPT !.running = FALSE, !.pc = "terminated", !.skipped = 0]])
       ELSE /\ \E out \in RecvOutcomes :
                 /\ ~sess[s].running => out = "error"
                 /\ sess' = Reap([sess EXCEPT ![s] =
                        IF @.running /\ out \in {"timeout", "data"}
                        THEN @
                        ELSE LeaveInnerLoop(@)])
            /\ UNCHANGED control_queue
    /\ UNCHANGED <<send_queue, netFails>>
    /\ UNCHANGED <<limVars, extVars, orchVars, sockVars>>

SessionStep(s) == Connect(s) \/ LoopIteration(s)

NextOrch ==
    \/ \E c \in Channels : JoinRoute(c)
    \/ \E S \in SUBSET Channels : SelectRoute(S)
    \/ \E off \in SUBSET Channels : MonPoll(off)
    \/ JPStep
    \/ MonStep
    \/ \E s \in SessIds : SessionStep(s)

SpecOrch == InitOrch /\ [][NextOrch]_vars

(***************************************************************************)
(* rebuild_shards on its own: the join thread handles one new channel while*)
(* the channels joined before it have their sessions and workers.          *)
(***************************************************************************)
MaxChannels == 23          \* largest channel of an active set
MaxFirst    == 2           \* smallest channels an active set starts at
MaxStride   == 2           \* gaps between the channels of an active set

ChannelSets ==
    {{c \in lo..hi : c % step = lo % step} :
        lo \in 1..MaxFirst, hi \in 0..MaxChannels, step \in 1..MaxStride}

\* the state handle_join_channel leaves behind once every channel of S has
\* been joined, with the transcription worker started first (w) or not yet
Settled(S, w) ==
    LET g  == ShardGroups(Sorted(S))
        p0 == IF w THEN <<[kind |-> "whisper", chan |-> 0, alive |-> TRUE]>> ELSE <<>>
        r  == StartWorkers(<<>>, p0, S)
    IN  /\ channels_with_workers = S
        /\ sess = [k \in DOMAIN g |-> NewShard(g[k])]
        /\ shards = [k \in DOMAIN g |-> k]
        /\ audio_procs = r[1]
        /\ procs = r[2]

InitRebuild ==
    /\ \E S \in ChannelSets :
         /\ active_channels = S
         /\ Settled(S \ {c \in S : \A d \in S : d <= c}, FALSE)
    /\ thr = [t \in Threads |-> NewThread(IF t = "jp" THEN "jp_sleep" ELSE "mon_sleep")]
    /\ joinsLeft = 0
    /\ offlineLeft = 0
    /\ boot = "off"
    /\ sentinels_put = 0
    /\ control_queue = 0
    /\ send_queue = <<>>
    /\ netFails = 0
    /\ LimIdle /\ SockIdle /\ ExtIdle

NextRebuild ==
    \/ JPStep
    \/ \E s \in SessIds : SessionStep(s)

SpecRebuild == InitRebuild /\ [][NextRebuild]_vars

\* the channel lists of the sessions of the list `shards`, in list order
RECURSIVE Concat(_)
Concat(ss) == IF ss = <<>> THEN <<>> ELSE Head(ss) \o Concat(Tail(ss))

Groups == [k \in DOMAIN shards |-> sess[shards[k]].channels]

CeilDiv(n, d) == (n + d - 1) \div d

\* rebuild_shards has returned in the join thread
Rebuilt == thr["jp"].pc \in {"ua_snap", "ua_stop", "ua_start", "jp_done"}

C3_OneOwner == \A c \in Channels : Cardinality(Owners(c)) <= 1

\* c is in exactly one live session of the list and has a running worker
Served(c) ==
    /\ Cardinality(Owners(c)) = 1
    /\ Owners(c) \subseteq Range(shards)
    /\ c \in DOMAIN audio_procs
    /\ procs[audio_procs[c]].alive

\* nothing is in progress: both threads sleep, the join thread has nothing
\* to pick up, and no stopped session is still running
Quiescent ==
    /\ thr["jp"].pc = "jp_sleep"
    /\ thr["mon"].pc = "mon_sleep"
    /\ NeedingWorkers(active_channels, channels_with_workers) = {}
    /\ \A s \in DOMAIN sess : Live(s) => sess[s].running

\* C4: whenever a channel is added to the active set, a rebuild and a worker
\* reconciliation eventually run, after which the channel is in exactly one
\* live shard and has a capture worker.  Once nothing is in progress any
\* more, that must already have happened for every active channel.
C4_ActivationServed == Quiescent => \A c \in active_channels : Served(c)

\* C5: when the monitor loop's pass that removed channels as offline ends, no
\* live session owns a removed channel (a session that was told to stop and
\* is on its way out is not counted), the removed channels' workers are
\* terminated, and the workers of the channels still active are running.
C5_OfflineCleanup ==
    thr["mon"].pc = "mon_done" =>
        /\ \A x \in thr["mon"].off \ active_channels :
              /\ \A s \in Owners(x) : ~sess[s].running
              /\ ~\E p \in AliveProcs : procs[p].chan = x
        /\ \A c \in active_channels \cap DOMAIN audio_procs :
              procs[audio_procs[c]].alive

(***************************************************************************)
(*              Subscriber lifecycle (web/socket_events.py)                *)
(* Flask-SocketIO runs in async_mode 'threading' (web/app.py:41): every    *)
(* client's handler runs on its own thread, so the handlers interleave at  *)
(* each access of the globals _connected_clients and _shutdown_timer.      *)
(***************************************************************************)
NumClients  == 2           \* clients (request.sid values)
MaxConnects == 3           \* connections opened in one run

Sids == 1..NumClients

PendingTimers == {t \in DOMAIN timers : timers[t] = "pending"}

\* positions of a client's handler thread
ConnectPcs == {"c_test", "c_cancel", "c_clear", "c_add"}
\* a subscriber is attached, or its connect handler is past every statement
\* that can raise and is about to add it
Attaching  == \E sid \in Sids : handlers[sid] \in {"c_clear", "c_add", "attached"}

\* a client opens a connection: handle_connect starts
ClientConnect(sid) ==
    /\ ~exited
    /\ handlers[sid] = "gone"
    /\ connectsLeft > 0
    /\ connectsLeft' = connectsLeft - 1
    /\ handlers' = [handlers EXCEPT ![sid] = "c_test"]
    /\ UNCHANGED <<connected_clients, shutdown_timer, timers, exited, armedEmpty>>
    /\ UNCHANGED <<limVars, extVars, sessVars, orchVars>>

\* threading.Timer.cancel(): a timer that has not fired never will
Cancel(ts, t) == [ts EXCEPT ![t] = IF @ = "fired" THEN @ ELSE "cancelled"]

\* handle_connect, one access of the globals per step
HandleConnect(sid) ==
    /\ ~exited
    /\ handlers[sid] \in ConnectPcs
    /\ CASE handlers[sid] = "c_test" ->          \* if _shutdown_timer is not None
              /\ handlers' = [handlers EXCEPT ![sid] =
                     IF shutdown_timer # None THEN "c_cancel" ELSE "c_add"]
              /\ UNCHANGED <<connected_clients, shutdown_timer, timers>>
         [] handlers[sid] = "c_cancel" ->        \* _shutdown_timer.cancel()
              IF shutdown_timer = None
              THEN \* AttributeError: the handler raises, the client is not added
                   /\ handlers' = [handlers EXCEPT ![sid] = "gone"]
                   /\ UNCHANGED <<connected_clients, shutdown_timer, timers>>
              ELSE /\ timers' = Cancel(timers, shutdown_timer)
                   /\ handlers' = [handlers EXCEPT ![sid] = "c_clear"]
                   /\ UNCHANGED <<connected_clients, shutdown_timer>>
         [] handlers[sid] = "c_clear" ->         \* _shutdown_timer = None
              /\ shutdown_timer' = None
              /\ handlers' = [handlers EXCEPT ![sid] = "c_add"]
              /\ UNCHANGED <<connected_clients, timers>>
         [] handlers[sid] = "c_add" ->           \* _connected_clients.add(sid)
              /\ connected_clients' = connected_clients \cup {sid}
              /\ handlers' = [handlers EXCEPT ![sid] = "attached"]
              /\ UNCHANGED <<shutdown_timer, timers>>
    /\ UNCHANGED <<exited, connectsLeft, armedEmpty>>
    /\ UNCHANGED <<limVars, extVars, sessVars, orchVars>>

\* a client closes its connection: handle_disconnect starts
ClientDisconnect(sid) ==
    /\ ~exited
    /\ handlers[sid] = "attached"
    /\ handlers' = [handlers EXCEPT ![sid] = "d_discard"]
    /\ UNCHANGED <<connected_clients, shutdown_timer, timers, exited,
                   connectsLeft, armedEmpty>>
    /\ UNCHANGED <<limVars, extVars, sessVars, orchVars>>

NoClientsLeftOrOne(clients) == Cardinality(clients) <= 1
\* `if len(_connected_clients) == 0`
NoClientsLeft(clients) == Cardinality(clients) = 0

DisconnectPcs == {"d_discard", "d_test", "d_create", "d_start"}

\* handle_disconnect, one access of the globals per step
HandleDisconnect(sid) ==
    /\ ~exited
    /\ handlers[sid] \in DisconnectPcs
    /\ CASE handlers[sid] = "d_discard" ->       \* _connected_clients.discard(sid)
              /\ connected_clients' = connected_clients \ {sid}
              /\ handlers' = [handlers EXCEPT ![sid] = "d_test"]
              /\ UNCHANGED <<shutdown_timer, timers, armedEmpty>>
         [] handlers[sid] = "d_test" ->
              /\ handlers' = [handlers EXCEPT ![sid] =
                     IF NoClientsLeft(connected_clients) THEN "d_create" ELSE "gone"]
              /\ armedEmpty' = (armedEmpty /\
                     (NoClientsLeft(connected_clients) => connected_clients = {}))
              /\ UNCHANGED <<connected_clients, shutdown_timer, timers>>
         [] handlers[sid] = "d_create" ->        \* _shutdown_timer = threading.Timer(3.0, ...)
              /\ timers' = Append(timers, "created")
              /\ shutdown_timer' = Len(timers) + 1
              /\ handlers' = [handlers EXCEPT ![sid] = "d_start"]
              /\ UNCHANGED <<connected_clients, armedEmpty>>
         [] handlers[sid] = "d_start" ->         \* _shutdown_timer.start()
              \* None: AttributeError; a timer already started: RuntimeError;
              \* a timer cancelled before its start never runs its function
              /\ timers' = IF shutdown_timer # None /\ timers[shutdown_timer] = "created"
                           THEN [timers EXCEPT ![shutdown_timer] = "pending"]
                           ELSE timers
              /\ handlers' = [handlers EXCEPT ![sid] = "gone"]
              /\ UNCHANGED <<connected_clients, shutdown_timer, armedEmpty>>
    /\ UNCHANGED <<exited, connectsLeft>>
    /\ UNCHANGED <<limVars, extVars, sessVars, orchVars>>

\* the grace window of a started timer ends: _trigger_shutdown calls os._exit(0)
TimerFires ==
    /\ ~exited
    /\ \E t \in PendingTimers :
         /\ timers' = [timers EXCEPT ![t] = "fired"]
         /\ exited' = TRUE
    /\ UNCHANGED <<connected_clients, shutdown_timer, handlers, connectsLeft,
                   armedEmpty>>
    /\ UNCHANGED <<limVars, extVars, sessVars, orchVars>>

InitSocket ==
    /\ connected_clients = {}
    /\ shutdown_timer = None
    /\ timers = <<>>
    /\ handlers = [sid \in Sids |-> "gone"]
    /\ exited = FALSE
    /\ connectsLeft = MaxConnects
    /\ armedEmpty = TRUE
    /\ LimIdle /\ SessIdle /\ OrchIdle /\ ExtIdle

NextSocket ==
    \/ \E sid \in Sids : ClientConnect(sid)
    \/ \E sid \in Sids : HandleConnect(sid)
    \/ \E sid \in Sids : ClientDisconnect(sid)
    \/ \E sid \in Sids : HandleDisconnect(sid)
    \/ TimerFires

SpecSocket == InitSocket /\ [][NextSocket]_vars

\* a started handler thread runs to its end and a started timer's thread
\* fires after its interval unless it was cancelled
FairSpecSocket ==
    /\ SpecSocket
    /\ \A sid \in Sids : WF_vars(HandleConnect(sid))
    /\ \A sid \in Sids : WF_vars(HandleDisconnect(sid))
    /\ WF_vars(TimerFires)

\* C9: the deferred shutdown never exits the process while a subscriber is
\* attached, and at most one shutdown timer is pending at any time, for every
\* interleaving of the connect and disconnect handlers.
C9_NoExitWhileAttached ==
    /\ exited => connected_clients = {}
    /\ Cardinality(PendingTimers) <= 1

\* C10: a disconnect that leaves zero subscribers leads to the process exit
\* unless a subscriber attaches; a timer is armed only by a disconnect that
\* saw zero subscribers, and a process that never had a subscriber is not
\* shut down.
C10_IdleShutdown ==
    /\ [](armedEmpty /\ (exited => connectsLeft < MaxConnects))
    /\ ((\E sid \in Sids : handlers[sid] = "d_create") ~> (exited \/ Attaching))

\* the last subscriber has detached, none is attaching, and the process exited
C10_Witness ==
    /\ exited
    /\ connected_clients = {}
    /\ ~Attaching
    /\ \A sid \in Sids : handlers[sid] = "gone"

(***************************************************************************)
(*        Process shutdown (twitch_monitor_web.main, socket_events.py)     *)
(* The process ends in one of three ways: the server returns or is         *)
(* interrupted and the `finally` of main runs; a signal runs signal_handler, *)
(* whose sys.exit(0) unwinds into that `finally`; or the deferred-shutdown *)
(* timer fires and calls os._exit(0), which runs no handler at all.        *)
(* boot: "running", "exiting" (signal_handler ran), "down" (the sentinels  *)
(* of the `finally` are on the queue), "done" (the `finally` ended).       *)
(***************************************************************************)
MaxActive    == 101        \* active channels when the shutdown starts
MaxCpu       == 2          \* mp.cpu_count()
MaxWorkerIds == 2          \* worker processes that take steps
WorkerIds    == 1..MaxWorkerIds

\* `for _ in range(mp.cpu_count() * 2)`
SignalSentinels(cpu) == cpu * 2
\* `for _ in range(len(processes) + 10)`
CleanupSentinels(nprocs) == nprocs + 10

\* signal_handler, lines 292-298, up to its time.sleep(2)
SignalHandler(cpu) ==
    /\ boot = "running" /\ ~exited
    /\ boot' = "exiting"
    /\ control_queue' = control_queue + SignalSentinels(cpu)
    /\ sentinels_put' = sentinels_put + SignalSentinels(cpu)
    /\ UNCHANGED <<active_channels, channels_with_workers, shards, audio_procs,
                   procs, thr, joinsLeft, offlineLeft>>
    /\ UNCHANGED <<sess, send_queue, netFails>>
    /\ UNCHANGED <<limVars, extVars, sockVars>>

\* the `finally` of main, lines 510-515: the sentinels are put
CleanupBroadcast ==
    /\ boot \in {"running", "exiting"} /\ ~exited
    /\ boot' = "down"
    /\ control_queue' = control_queue + CleanupSentinels(Cardinality(DOMAIN procs))
    /\ sentinels_put' = sentinels_put + CleanupSentinels(Cardinality(DOMAIN procs))
    /\ UNCHANGED <<active_channels, channels_with_workers, shards, audio_procs,
                   procs, thr, joinsLeft, offlineLeft>>
    /\ UNCHANGED <<sess, send_queue, netFails>>
    /\ UNCHANGED <<limVars, extVars, sockVars>>

\* lines 517-531: the processes still alive after their join are terminated,
\* the sessions of the list are stopped
CleanupReap ==
    /\ boot = "down" /\ ~exited
    /\ boot' = "done"
    /\ procs' = [p \in DOMAIN procs |-> [procs[p] EXCEPT !.alive = FALSE]]
    /\ sess' = [s \in DOMAIN sess |->
                   IF s \in Range(shards) THEN StopShard(sess[s]) ELSE sess[s]]
    /\ UNCHANGED <<active_channels, channels_with_workers, shards, audio_procs,
                   thr, joinsLeft, offlineLeft, sentinels_put>>
    /\ UNCHANGED <<control_queue, send_queue, netFails>>
    /\ UNCHANGED <<limVars, extVars, sockVars>>

\* audio.py:55,104 and whisper.py:71: a worker process finds the sentinel on
\* the control queue and returns
WorkerCheckControl(p) ==
    /\ p \in DOMAIN procs
    /\ procs[p].alive
    /\ control_queue > 0
    /\ control_queue' = control_queue - 1
    /\ procs' = [procs EXCEPT ![p].alive = FALSE]
    /\ UNCHANGED <<active_channels, channels_with_workers, shards, audio_procs,
                   thr, joinsLeft, offlineLeft, boot, sentinels_put>>
    /\ UNCHANGED <<sess, send_queue, netFails>>
    /\ UNCHANGED <<limVars, extVars, sockVars>>

\* every channel of 1..n has been joined, the sessions are connected, the last
\* subscriber has left and the grace window of its timer is running
InitShutdown ==
    /\ \E n \in 0..MaxActive, w \in BOOLEAN :
         /\ active_channels = 1..n
         /\ Settled(1..n, w)
    /\ thr = [t \in Threads |-> NewThread(IF t = "jp" THEN "jp_sleep" ELSE "mon_sleep")]
    /\ joinsLeft = 0
    /\ offlineLeft = 0
    /\ boot = "running"
    /\ sentinels_put = 0
    /\ control_queue = 0
    /\ send_queue = <<>>
    /\ netFails = 0
    /\ connected_clients = {}
    /\ shutdown_timer = 1
    /\ timers = <<"pending">>
    /\ handlers = [sid \in Sids |-> "gone"]
    /\ exited = FALSE
    /\ connectsLeft = 0
    /\ armedEmpty = TRUE
    /\ LimIdle /\ ExtIdle

\* the threads of the process run until it exits, its child processes go on
NextShutdown ==
    \/ \E cpu \in 1..MaxCpu : SignalHandler(cpu)
    \/ CleanupBroadcast
    \/ CleanupReap
    \/ TimerFires
    \/ \E p \in WorkerIds : WorkerCheckControl(p)
    \/ \E s \in SessIds : ~exited /\ SessionStep(s)

SpecShutdown == InitShutdown /\ [][NextShutdown]_vars

\* the consumers of the control queue that are still running: the sessions
\* (threads of the process) and the worker processes
LiveConsumers ==
    Cardinality(IF exited THEN {} ELSE {s \in DOMAIN sess : Live(s)})
        + Cardinality(AliveProcs)

\* C8: once the process shuts down, the sentinels on the control queue are at
\* least as many as the consumers still running (sessions, capture workers
\* and the transcription worker); every consumer removes one and exits.
C8_EnoughSentinels ==
    (boot = "down" \/ exited) => control_queue >= LiveConsumers

(***************************************************************************)
(*                 audio_worker: backpressure (audio.py)                   *)
(* A capture worker is in the read loop of lines 102-124:                  *)
(*   "read"  before process.stdout.read and the qsize() test (108-116)     *)
(*   "put"   after a test that let the chunk through, before put() (118)   *)
(* last tells what became of the worker's latest chunk.  A read that       *)
(* returns nothing leaves the loop and a new capture re-enters it: the     *)
(* queue is not touched.                                                   *)
(***************************************************************************)
\* audio.py:115
AUDIO_QUEUE_LIMIT == 50

NumCapture == 2            \* capture workers running
CaptureIds == 1..NumCapture

QueueFullLax(depth) == depth > AUDIO_QUEUE_LIMIT + 1
\* `if audio_queue.qsize() > 50: continue`
QueueFull(depth) == depth > AUDIO_QUEUE_LIMIT

\* lines 108-116: a chunk was read; qsize() decides whether it is dropped
Observe(p) ==
    /\ p \in DOMAIN capture
    /\ capture[p].pc = "read"
    /\ capture' = [capture EXCEPT ![p] =
           IF QueueFull(audio_queue)
           THEN [pc |-> "read", last |-> "dropped"]
           ELSE [pc |-> "put", last |-> @.last]]
    /\ UNCHANGED audio_queue
    /\ UNCHANGED <<limVars, sessVars, orchVars, sockVars, notCap>>

\* lines 118-124: audio_queue.put(chunk) on the unbounded mp.Queue
PutChunk(p) ==
    /\ p \in DOMAIN capture
    /\ capture[p].pc = "put"
    /\ audio_queue' = audio_queue + 1
    /\ capture' = [capture EXCEPT ![p] = [pc |-> "read", last |-> "queued"]]
    /\ UNCHANGED <<limVars, sessVars, orchVars, sockVars, notCap>>

\* whisper.py:76: the transcription worker takes one chunk
WhisperGet ==
    /\ audio_queue > 0
    /\ audio_queue' = audio_queue - 1
    /\ UNCHANGED capture
    /\ UNCHANGED <<limVars, sessVars, orchVars, sockVars, notCap>>

InitCapture ==
    /\ audio_queue = 0
    /\ capture = [p \in CaptureIds |-> [pc |-> "read", last |-> "none"]]
    /\ LimIdle /\ SessIdle /\ OrchIdle /\ SockIdle /\ NotCapIdle

NextCapture ==
    \/ \E p \in CaptureIds : Observe(p)
    \/ \E p \in CaptureIds : PutChunk(p)
    \/ WhisperGet

SpecCapture == InitCapture /\ [][NextCapture]_vars

\* a worker's qsize() test ends in put() only at a depth of at most 50, and
\* at a greater depth the chunk is dropped and the worker reads on
ObservedBeforePut ==
    \A p \in DOMAIN capture :
        capture[p].pc = "read" /\ capture'[p] # capture[p]
            => IF audio_queue <= AUDIO_QUEUE_LIMIT
               THEN capture'[p].pc = "put" /\ capture'[p].last = capture[p].last
               ELSE capture'[p].pc = "read" /\ capture'[p].last = "dropped"

\* C11: a capture worker puts a chunk only after it saw a depth of at most
\* 50 and drops the chunk otherwise, going on with the next read; with K
\* workers and any consumer the depth of the audio queue stays within 50 + K.
C11_Backpressure ==
    /\ [](audio_queue <= AUDIO_QUEUE_LIMIT + Cardinality(DOMAIN capture))
    /\ [][ObservedBeforePut]_vars

\* every worker put after seeing the queue at the threshold, and one of them
\* then dropped a chunk
C11_Witness ==
    /\ audio_queue = AUDIO_QUEUE_LIMIT + NumCapture
    /\ \E p \in DOMAIN capture : capture[p].last = "dropped"

(***************************************************************************)
(*            IRCShard.run: the outgoing block (irc.py:171-192)            *)
(* The sessions share context.send_queue; each has its own TwitchLimiter.  *)
(* A session's position in one iteration of the inner loop:                *)
(*   "get"    at send_queue.get_nowait()                      (173)        *)
(*   "allow"  at self.limiter.allow(), holding an item        (175)        *)
(*   "sleep"  in time.sleep(0.05) after a refusal             (176)        *)
(*   "write"  at sock.send of the PRIVMSG                     (177)        *)
(*   "recv"   in the incoming block, the iteration's end      (194-222)    *)
(*   "down"   the send raised: the session reconnects         (223-230)    *)
(* log is the session's history of limiter results and chat messages       *)
(* written, sends counts the chat messages of the current iteration.       *)
(* The items of the queue are those handle_send_chat puts                  *)
(* (web/socket_events.py:66-76); that handler's definition stands below    *)
(* os._exit(0) inside _trigger_shutdown.                                   *)
(***************************************************************************)
MaxSendReq  == 2           \* chat requests per run
MaxAttempts == 4           \* allow() calls per session
SleepStep   == 8           \* the clock's step, in tenths of a second
MaxSendTime == 16          \* the clock runs from ClockStart to ClockStart+MaxSendTime

\* two sessions: a full shard and a last one with a single channel
OutSessions == ShardGroups(Sorted(1..(MAX_CHANNELS_PER_CONN + 1)))
\* the channels a request may name: one of each session
SendTargets == {1, MAX_CHANNELS_PER_CONN + 1}

\* took is a history field: the items the session got from the queue
NewOut(channels) ==
    [channels |-> channels,
     limiter |-> NewLimiter(MSG_LIMIT, MSG_WINDOW, MIN_MSG_DELAY),
     pc |-> "get", item |-> <<>>, log |-> <<>>, sends |-> 0, took |-> <<>>]

LogAllow(ok) == [ev |-> IF ok THEN "allow_ok" ELSE "allow_no", chan |-> 0, msg |-> 0]
LogPrivmsg(item) == [ev |-> "privmsg", chan |-> item[1], msg |-> item[2]]

\* handle_send_chat: `context.send_queue.put((channel, message))`
SendChat(c) ==
    /\ produced < MaxSendReq
    /\ produced' = produced + 1
    /\ send_queue' = Append(send_queue, <<c, produced + 1>>)
    /\ UNCHANGED sender
    /\ UNCHANGED <<sess, control_queue, netFails>>
    /\ UNCHANGED <<limVars, orchVars, sockVars, notOut>>

\* line 173: get_nowait() takes the head of the queue, whatever its target;
\* queue.Empty ends the block
GetItem(s) ==
    /\ s \in DOMAIN sender
    /\ sender[s].pc = "get"
    /\ IF send_queue = <<>>
       THEN /\ sender' = [sender EXCEPT ![s].pc = "recv"]
            /\ UNCHANGED send_queue
       ELSE /\ sender' = [sender EXCEPT ![s].pc = "allow", ![s].item = Head(send_queue),
                                        ![s].took = Append(@, Head(send_queue))]
            /\ send_queue' = Tail(send_queue)
    /\ UNCHANGED produced
    /\ UNCHANGED <<sess, control_queue, netFails>>
    /\ UNCHANGED <<limVars, orchVars, sockVars, notOut>>

LimiterIgnored(result) == TRUE
\* `while not self.limiter.allow():` the loop ends on a true result
LimiterLetsThrough(result) == result

\* line 175: one call of allow() on the session's limiter
TryAllow(s) ==
    /\ s \in DOMAIN sender
    /\ sender[s].pc = "allow"
    /\ sender[s].limiter.metrics.total_attempts < MaxAttempts
    /\ LET r == AllowAt(sender[s].limiter, now) IN
         sender' = [sender EXCEPT ![s].limiter = r[1],
                            ![s].log = Append(@, LogAllow(r[2])),
                            ![s].pc = IF LimiterLetsThrough(r[2])
                                      THEN "write" ELSE "sleep"]
    /\ UNCHANGED <<send_queue, produced>>
    /\ UNCHANGED <<sess, control_queue, netFails>>
    /\ UNCHANGED <<limVars, orchVars, sockVars, notOut>>

\* line 176: time.sleep(0.05) returns
SleepDone(s) ==
    /\ s \in DOMAIN sender
    /\ sender[s].pc = "sleep"
    /\ sender' = [sender EXCEPT ![s].pc = "allow"]
    /\ UNCHANGED <<send_queue, produced>>
    /\ UNCHANGED <<sess, control_queue, netFails>>
    /\ UNCHANGED <<limVars, orchVars, sockVars, notOut>>

\* everything but the send path, the inbound queue and the shared state
besideSend == <<limVars, orchVars, sockVars, capVars, lockVars, closeVars,
                bridgeVars, whisperVars, monVars, reqVars, linkVars, rx,
                handled, sent, inflight,
              memberVars,
              lifeVars>>

SelfNever(item) == <<>>
\* line 190: `gui_queue.put((target_chan, 'SELF', f"You: {msg}"))`
SelfEvent(item) ==
    <<[chan |-> item[1], kind |-> "SELF", text |-> <<"You: ", item[2]>>]>>

\* lines 178-181: `bot_state[target_chan] = {'last_msg': msg, 'last_time': ...}`
Remember(bs, item, t) ==
    [c \in DOMAIN bs \cup {item[1]} |->
        IF c = item[1] THEN [last_msg |-> item[2], last_time |-> t] ELSE bs[c]]

\* line 177: sock.send of the PRIVMSG returns or raises; lines 178-190 follow
\* a send that returned
WritePrivmsg(s) ==
    /\ s \in DOMAIN sender
    /\ sender[s].pc = "write"
    /\ \E ok \in BOOLEAN :
         /\ sender' = [sender EXCEPT ![s] =
                IF ok
                THEN [@ EXCEPT !.log = Append(@, LogPrivmsg(sender[s].item)),
                               !.sends = @ + 1, !.item = <<>>, !.pc = "recv"]
                ELSE [@ EXCEPT !.item = <<>>, !.pc = "down"]]
         /\ bot_state' = IF ok THEN Remember(bot_state, sender[s].item, now)
                         ELSE bot_state
         /\ gui_queue' = IF ok THEN gui_queue \o SelfEvent(sender[s].item)
                         ELSE gui_queue
    /\ UNCHANGED <<send_queue, produced>>
    /\ UNCHANGED <<sess, control_queue, netFails>>
    /\ UNCHANGED besideSend

\* the incoming block ends and the next iteration begins, or the session
\* has connected again (lines 161-163)
NextIteration(s) ==
    /\ s \in DOMAIN sender
    /\ sender[s].pc \in {"recv", "down"}
    /\ sender' = [sender EXCEPT ![s].pc = "get", ![s].sends = 0]
    /\ UNCHANGED <<send_queue, produced>>
    /\ UNCHANGED <<sess, control_queue, netFails>>
    /\ UNCHANGED <<limVars, orchVars, sockVars, notOut>>

\* time passes
Elapse ==
    /\ now + SleepStep <= ClockStart + MaxSendTime
    /\ now' = now + SleepStep
    /\ UNCHANGED <<limiter, allowed>>
    /\ UNCHANGED <<sessVars, orchVars, sockVars, extVars>>

InitSendPath ==
    /\ sender = [k \in DOMAIN OutSessions |-> NewOut(OutSessions[k])]
    /\ produced = 0
    /\ LimIdle /\ SessIdle /\ OrchIdle /\ SockIdle /\ NotOutIdle

OutIds == 1..2

NextSendPath ==
    \/ \E c \in SendTargets : SendChat(c)
    \/ \E s \in OutIds : GetItem(s)
    \/ \E s \in OutIds : TryAllow(s)
    \/ \E s \in OutIds : SleepDone(s)
    \/ \E s \in OutIds : WritePrivmsg(s)
    \/ \E s \in OutIds : NextIteration(s)
    \/ Elapse

SpecSendPath == InitSendPath /\ [][NextSendPath]_vars

\* C12: a session takes from the send queue, and writes as a chat message,
\* only items addressed to one of its own channels: a message for channel c
\* is sent by the session owning c and by no other.
C12_OwnerSends ==
    \A s \in DOMAIN sender :
        /\ sender[s].item # <<>> => sender[s].item[1] \in Range(sender[s].channels)
        /\ \A i \in DOMAIN sender[s].log :
              sender[s].log[i].ev = "privmsg"
                  => sender[s].log[i].chan \in Range(sender[s].channels)

\* C13: every chat message a session writes comes right after an allow() of
\* its limiter that returned true, never after a refusal without a later
\* success, and one iteration of the connected loop writes at most one.
C13_AllowBeforeSend ==
    \A s \in DOMAIN sender :
        /\ \A i \in DOMAIN sender[s].log :
              sender[s].log[i].ev = "privmsg"
                  => i > 1 /\ sender[s].log[i - 1].ev = "allow_ok"
        /\ sender[s].pc = "write"
              => sender[s].log # <<>> /\ sender[s].log[Len(sender[s].log)].ev = "allow_ok"
        /\ sender[s].sends <= 1

\* a session was refused by its limiter, slept, was let through and wrote
\* its second chat message
C13_Witness ==
    \E s \in DOMAIN sender :
        \E i, j, k \in DOMAIN sender[s].log :
            /\ i < j /\ j < k /\ k = Len(sender[s].log)
            /\ sender[s].log[i].ev = "privmsg"
            /\ sender[s].log[j].ev = "allow_no"
            /\ sender[s].log[k].ev = "privmsg"

(***************************************************************************)
(*          TwitchLimiter: a burst of calls on a fresh limiter             *)
(***************************************************************************)
BurstCalls == 25           \* allow() calls of the burst

\* one call of allow() on the limiter IRCShard constructs
BurstCall ==
    /\ limiter.metrics.total_attempts < BurstCalls
    /\ LET r == AllowAt(limiter, now) IN
         /\ limiter' = r[1]
         /\ allowed' = IF r[2] THEN Append(allowed, now) ELSE allowed
    /\ UNCHANGED <<now, extVars, sessVars, orchVars, sockVars>>

InitBurst == LimIdle /\ SessIdle /\ OrchIdle /\ SockIdle /\ ExtIdle

NextBurst == BurstCall \/ Tick

SpecBurst == InitBurst /\ [][NextBurst]_vars

\* every call so far was made at the instant of the first one
SameInstant == allowed # <<>> /\ now = allowed[1]

\* C14: on a fresh limiter with the defaults (20 per 30 s, 1.6 s apart), of
\* the calls made at one instant only the first succeeds; the others are all
\* refused by the minimum-delay test and none by the window test: after 25
\* calls allowed_messages = 1, min_delay_blocked = 24, rate_limited = 0.
C14_Burst ==
    LET m == limiter.metrics IN
    /\ m.total_attempts >= 1 => allowed # <<>>
    /\ SameInstant =>
          /\ m.allowed_messages = 1 /\ Len(allowed) = 1
          /\ m.min_delay_blocked = m.total_attempts - 1
          /\ m.rate_limited = 0
    /\ SameInstant /\ m.total_attempts = 25
          => m.allowed_messages = 1 /\ m.min_delay_blocked = 24 /\ m.rate_limited = 0

\* the 25th call of a burst has returned
C14_Witness ==
    /\ SameInstant
    /\ limiter.metrics.total_attempts = 25
    /\ limiter.metrics.min_delay_blocked = 24

(***************************************************************************)
(*            TwitchLimiter.allow called by several threads                *)
(* A thread's position in allow():                                         *)
(*   "idle"    outside the call                                            *)
(*   "enter"   holds the lock, before lines 52-53                          *)
(*   "delay"   before the minimum-delay test               (55-57)         *)
(*   "window"  before the eviction and the window test     (59-62)         *)
(*   "append"  found room, before lines 63-71                              *)
(* t is the thread's local `now`.  The clock may advance at any point.     *)
(***************************************************************************)
NumCallers == 2
CallerIds  == 1..NumCallers
ConcCalls  == 4            \* allow() calls per run

NewCaller == [pc |-> "idle", t |-> 0]

LockNotTaken(holder) == TRUE
\* `with self.lock:` the lock is acquired when no thread holds it
LockFree(holder) == holder = None

\* line 51: the thread enters the `with` block
Acquire(c) ==
    /\ c \in DOMAIN callers
    /\ callers[c].pc = "idle"
    /\ limiter.metrics.total_attempts < ConcCalls
    /\ LockFree(lock)
    /\ lock' = c
    /\ callers' = [callers EXCEPT ![c].pc = "enter"]
    /\ UNCHANGED <<limVars, sessVars, orchVars, sockVars, notLock>>

\* lines 52-53: total_attempts += 1, now = time.time()
EnterAllow(c) ==
    /\ c \in DOMAIN callers
    /\ callers[c].pc = "enter"
    /\ limiter' = [limiter EXCEPT !.metrics.total_attempts = @ + 1]
    /\ callers' = [callers EXCEPT ![c] = [pc |-> "delay", t |-> now]]
    /\ UNCHANGED <<lock, now, allowed>>
    /\ UNCHANGED <<sessVars, orchVars, sockVars, notLock>>

\* lines 55-57: the minimum-delay test; a refusal returns and releases
CheckDelay(c) ==
    /\ c \in DOMAIN callers
    /\ callers[c].pc = "delay"
    /\ IF MinDelayBlocks(limiter, callers[c].t)
       THEN /\ limiter' = [limiter EXCEPT !.metrics.min_delay_blocked = @ + 1]
            /\ callers' = [callers EXCEPT ![c] = NewCaller]
            /\ lock' = None
       ELSE /\ callers' = [callers EXCEPT ![c].pc = "window"]
            /\ UNCHANGED <<limiter, lock>>
    /\ UNCHANGED <<now, allowed>>
    /\ UNCHANGED <<sessVars, orchVars, sockVars, notLock>>

\* lines 59-62 and 72-74: eviction, then the window test; a refusal returns
CheckWindow(c) ==
    /\ c \in DOMAIN callers
    /\ callers[c].pc = "window"
    /\ LET ev == Evict(limiter.events, callers[c].t, limiter.window) IN
       IF WindowHasRoom(ev, limiter.limit)
       THEN /\ limiter' = [limiter EXCEPT !.events = ev]
            /\ callers' = [callers EXCEPT ![c].pc = "append"]
            /\ UNCHANGED lock
       ELSE /\ limiter' = [limiter EXCEPT !.events = ev,
                                          !.metrics.rate_limited = @ + 1]
            /\ callers' = [callers EXCEPT ![c] = NewCaller]
            /\ lock' = None
    /\ UNCHANGED <<now, allowed>>
    /\ UNCHANGED <<sessVars, orchVars, sockVars, notLock>>

\* lines 63-71: the call is recorded and returns True
RecordCall(c) ==
    /\ c \in DOMAIN callers
    /\ callers[c].pc = "append"
    /\ limiter' = [limiter EXCEPT !.events = Append(@, callers[c].t),
                                  !.last_message = callers[c].t,
                                  !.metrics.allowed_messages = @ + 1]
    /\ allowed' = Append(allowed, callers[c].t)
    /\ callers' = [callers EXCEPT ![c] = NewCaller]
    /\ lock' = None
    /\ UNCHANGED now
    /\ UNCHANGED <<sessVars, orchVars, sockVars, notLock>>

\* the clock advances, inside or outside a call
ClockTick ==
    /\ \E d \in 1..MaxTime :
         /\ now + d <= ClockStart + MaxTime
         /\ now' = now + d
    /\ UNCHANGED <<limiter, allowed, lockVars>>
    /\ UNCHANGED <<sessVars, orchVars, sockVars, notLock>>

InitCallers ==
    /\ \E p \in LimiterParams : limiter = NewLimiter(p[1], p[2], p[3])
    /\ now = ClockStart
    /\ allowed = <<>>
    /\ lock = None
    /\ callers = [c \in CallerIds |-> NewCaller]
    /\ SessIdle /\ OrchIdle /\ SockIdle /\ NotLockIdle

NextCallers ==
    \/ \E c \in CallerIds : Acquire(c)
    \/ \E c \in CallerIds : EnterAllow(c)
    \/ \E c \in CallerIds : CheckDelay(c)
    \/ \E c \in CallerIds : CheckWindow(c)
    \/ \E c \in CallerIds : RecordCall(c)
    \/ ClockTick

SpecCallers == InitCallers /\ [][NextCallers]_vars

Inside == {c \in DOMAIN callers : callers[c].pc # "idle"}

\* C15: allow() runs its whole check-and-update under one lock: at most one
\* thread is inside it, and with several threads calling it at once at most
\* `limit` successes fall in any window and two successes are at least
\* `min_delay` apart, so no two callers take the same slot or interval.
C15_AtomicAllow ==
    /\ Cardinality(Inside) <= 1
    /\ Inside # {} => lock \in Inside
    /\ \A t \in ClockStart..now :
          Cardinality({i \in DOMAIN allowed :
                          t - limiter.window <= allowed[i] /\ allowed[i] <= t})
              <= limiter.limit
    /\ \A i \in 1..(Len(allowed) - 1) : allowed[i + 1] - allowed[i] >= limiter.min_delay
    /\ limiter.metrics.allowed_messages = Len(allowed)

\* one thread is inside allow() while the other waits for the lock, after a
\* call has succeeded and one was refused
C15_Witness ==
    /\ \E c \in DOMAIN callers : callers[c].pc = "window" /\ lock = c
    /\ allowed # <<>>
    /\ limiter.metrics.min_delay_blocked + limiter.metrics.rate_limited > 0

(***************************************************************************)
(*            IRCShard.run: the incoming block (irc.py:194-222)            *)
(* Text is a sequence of symbols: single characters, "CR" and "LF", and    *)
(* the command words PING, PRIVMSG, NOTICE, JOIN and PART, each standing   *)
(* for its letters.                                                        *)
(***************************************************************************)
\* what str.strip() removes
Blank == {" ", "CR", "LF"}

\* s.startswith(p)
StartsWith(s, p) == Len(s) >= Len(p) /\ SubSeq(s, 1, Len(p)) = p
\* `x in s`
Has(s, x) == \E i \in DOMAIN s : s[i] = x
IndexOf(s, x) == CHOOSE i \in DOMAIN s : s[i] = x /\ \A j \in 1..(i - 1) : s[j] # x
\* s.split(x, 1) when x is in s: the two parts
Before(s, x) == SubSeq(s, 1, IndexOf(s, x) - 1)
After(s, x)  == SubSeq(s, IndexOf(s, x) + 1, Len(s))
\* s[1:]
Rest(s) == SubSeq(s, 2, Len(s))

\* s.strip()
Strip(s) ==
    LET keep == {i \in DOMAIN s : s[i] \notin Blank} IN
    IF keep = {} THEN <<>>
    ELSE SubSeq(s, CHOOSE i \in keep : \A j \in keep : i <= j,
                   CHOOSE i \in keep : \A j \in keep : j <= i)

\* s.lstrip("#")
LStripHash(s) ==
    LET keep == {i \in DOMAIN s : s[i] # "#"} IN
    IF keep = {} THEN <<>>
    ELSE SubSeq(s, CHOOSE i \in keep : \A j \in keep : i <= j, Len(s))

LowerChar(c) ==
    CASE c = "A" -> "a" [] c = "B" -> "b" [] c = "F" -> "f" [] c = "H" -> "h"
      [] c = "U" -> "u"
      [] c = "PING" -> "ping" [] c = "PRIVMSG" -> "privmsg"
      [] c = "NOTICE" -> "notice" [] c = "JOIN" -> "join" [] c = "PART" -> "part"
      [] OTHER -> c
\* s.lower()
Lower(s) == IF s = <<>> THEN <<>> ELSE [i \in 1..Len(s) |-> LowerChar(s[i])]

Unknown == <<"U", "n", "k", "n", "o", "w", "n">>
CRLF    == <<"CR", "LF">>

\* buffer.split('\r\n'): <<the complete lines, the rest>>
RECURSIVE SplitLines(_)
SplitLines(buf) ==
    LET at == {i \in 1..(Len(buf) - 1) : buf[i] = "CR" /\ buf[i + 1] = "LF"} IN
    IF at = {} THEN <<<<>>, buf>>
    ELSE LET i == CHOOSE x \in at : \A y \in at : x <= y
             r == SplitLines(SubSeq(buf, i + 2, Len(buf)))
         IN  <<(<<SubSeq(buf, 1, i - 1)>>) \o r[1], r[2]>>

\* what one line makes the session do: PONGs written, events put on the gui
\* queue, the increase of message_count, the presence sets afterwards and the
\* USER_PRESENT entries written to the system log
NoEffect(cu) ==
    [pongs |-> 0, events |-> <<>>, counted |-> 0, users |-> cu, present |-> <<>>]

\* `raw_user = header.split("!")[0][1:] if "!" in header else "Unknown"`,
\* then .lower()
UserOf(header) ==
    Lower(IF Has(header, "!") THEN Rest(Before(header, "!")) ELSE Unknown)

ChannelOfRaw(chan_part) == LStripHash(Strip(chan_part))
\* `chan_part.strip().lstrip("#").lower()`
ChannelOf(chan_part) == Lower(LStripHash(Strip(chan_part)))

\* the presence set of chan gains user when the session tracks chan
AddUser(cu, chan, user) ==
    IF chan \in DOMAIN cu THEN [cu EXCEPT ![chan] = @ \cup {user}] ELSE cu

PresentAlways(cu, chan, user) == <<[chan |-> chan, user |-> user]>>
\* `if chan in self.channel_users and user not in self.channel_users[chan]`:
\* the USER_PRESENT entry that accompanies the add (lines 346-351, 395-400)
PresentLog(cu, chan, user) ==
    IF chan \in DOMAIN cu /\ user \notin cu[chan]
    THEN <<[chan |-> chan, user |-> user]>> ELSE <<>>

\* parse_privmsg (lines 288-358).  A tag part without a following space
\* fails to unpack: the exception is logged and the line is dropped.
ParsePrivmsg(line, cu) ==
    IF line[1] = "@" /\ ~Has(line, " ") THEN NoEffect(cu)
    ELSE LET l == IF line[1] = "@" THEN After(line, " ") ELSE line IN
         IF ~Has(l, "PRIVMSG") THEN NoEffect(cu)
         ELSE LET header == Strip(Before(l, "PRIVMSG"))
                  body   == Strip(After(l, "PRIVMSG"))
              IN  IF ~Has(body, ":") THEN NoEffect(cu)
                  ELSE LET chan == ChannelOf(Before(body, ":"))
                           msg  == Strip(After(body, ":"))
                           user == UserOf(header)
                       IN  [pongs |-> 0,
                            events |-> <<[chan |-> chan, kind |-> "CHAT",
                                          text |-> user \o <<":", " ">> \o msg]>>,
                            counted |-> 1,
                            users |-> AddUser(cu, chan, user),
                            present |-> PresentLog(cu, chan, user)]

\* parse_notice (lines 360-380)
ParseNotice(line, cu) ==
    LET body == Strip(After(line, "NOTICE")) IN
    IF ~Has(body, ":") THEN NoEffect(cu)
    ELSE [pongs |-> 0,
          events |-> <<[chan |-> Strip(LStripHash(Strip(Before(body, ":")))),
                        kind |-> "SYSTEM",
                        text |-> <<"[NOTICE] ">> \o Strip(After(body, ":"))]>>,
          counted |-> 0, users |-> cu, present |-> <<>>]

\* parse_presence (lines 382-418)
ParsePresence(line, cu) ==
    LET word == IF Has(line, "JOIN") THEN "JOIN" ELSE "PART"
        user == UserOf(Before(line, word))
        chan == Lower(LStripHash(Strip(After(line, word))))
    IN  [NoEffect(cu) EXCEPT
            !.users =
                IF chan \notin DOMAIN cu THEN cu
                ELSE IF word = "JOIN" THEN [cu EXCEPT ![chan] = @ \cup {user}]
                ELSE [cu EXCEPT ![chan] = @ \ {user}],
            !.present =
                IF word = "JOIN" THEN PresentLog(cu, chan, user) ELSE <<>>]

NeverPing(line) == FALSE
\* `line.startswith("PING")`
IsPing(line) == StartsWith(line, <<"PING">>)

\* lines 206-213: the branch a non-empty line takes
Dispatch(line, cu) ==
    IF IsPing(line) THEN [NoEffect(cu) EXCEPT !.pongs = 1]
    ELSE IF Has(line, "PRIVMSG") THEN ParsePrivmsg(line, cu)
    ELSE IF Has(line, "NOTICE") THEN ParseNotice(line, cu)
    ELSE IF Has(line, "JOIN") \/ Has(line, "PART") THEN ParsePresence(line, cu)
    ELSE NoEffect(cu)

\* lines 203-213: `for line in lines`, empty lines skipped.  st holds the
\* session, the gui queue and the history
RECURSIVE HandleLines(_, _)
HandleLines(lines, st) ==
    IF lines = <<>> THEN st
    ELSE IF Head(lines) = <<>> THEN HandleLines(Tail(lines), st)
    ELSE LET e == Dispatch(Head(lines), st.rx.channel_users) IN
         HandleLines(Tail(lines),
             [rx |-> [st.rx EXCEPT !.pongs = @ + e.pongs,
                                   !.message_count = @ + e.counted,
                                   !.channel_users = e.users],
              gui |-> st.gui \o e.events,
              handled |-> Append(st.handled,
                  [pongs |-> e.pongs, events |-> e.events, counted |-> e.counted,
                   presence |-> e.users # st.rx.channel_users, up |-> st.rx.up,
                   before |-> st.rx.channel_users, users |-> e.users,
                   present |-> e.present])])

\* ---- the lines of the server
Alice == <<"a", "l", "i", "c", "e">>
Foo   == <<"f", "o", "o">>
Hello == <<"h", "e", "l", "l", "o">>
HiAll == <<"h", "i", " ", "a", "l", "l">>
Host  == <<"x">>
SubTag == <<"@", "s", "=", "1", " ">>

\* texts: plain, with a blank inside, with a blank in front, with a colon,
\* and a command word
Texts == {Hello, HiAll, <<" ", "h", "i">>, <<"h", ":", "i">>, <<"PING">>}

\* well-formed chat lines: ":alice!alice@x PRIVMSG #foo :<text>", that line
\* with tags, in a channel the session has not joined, and a tagged line
\* with upper-case names
ChatLines ==
    {[form |-> "chat", tags |-> <<>>, user |-> Alice, chan |-> Foo, text |-> t] :
        t \in Texts}
    \cup {[form |-> "chat", tags |-> SubTag, user |-> Alice, chan |-> Foo,
           text |-> Hello],
          [form |-> "chat", tags |-> <<>>, user |-> Alice,
           chan |-> <<"b", "a", "r">>, text |-> Hello],
          [form |-> "chat", tags |-> SubTag, user |-> <<"A", "l", "i", "c", "e">>,
           chan |-> <<"F", "o", "o">>, text |-> HiAll]}
\* chat lines written without the ':' that begins the text
NoSepLines ==
    {[form |-> "nosep", tags |-> <<>>, user |-> Alice, chan |-> Foo, text |-> t] :
        t \in {Hello, <<"h", ":", "i">>}}
OtherLines ==
    {[form |-> f, tags |-> <<>>, user |-> Alice, chan |-> Foo, text |-> Hello] :
        f \in {"ping", "join", "notice"}}
ServerLines == ChatLines \cup NoSepLines \cup OtherLines

Prefix(u) == <<":">> \o u \o <<"!">> \o u \o <<"@">> \o Host

\* the text of a line on the wire
Render(d) ==
    CASE d.form = "ping"   -> <<"PING", " ", ":", "t", "m", "i">>
      [] d.form = "chat"   -> d.tags \o Prefix(d.user) \o <<" ", "PRIVMSG", " ", "#">>
                                 \o d.chan \o <<" ", ":">> \o d.text
      [] d.form = "nosep"  -> d.tags \o Prefix(d.user) \o <<" ", "PRIVMSG", " ", "#">>
                                 \o d.chan \o <<" ">> \o d.text
      [] d.form = "join"   -> Prefix(d.user) \o <<" ", "JOIN", " ", "#">> \o d.chan
      [] d.form = "part"   -> Prefix(d.user) \o <<" ", "PART", " ", "#">> \o d.chan
      [] d.form = "notice" -> <<":", "t", "m", "i", " ", "NOTICE", " ", "#">>
                                 \o d.chan \o <<" ", ":">> \o d.text

MaxLines == 2              \* lines the server sends in a run

\* the server writes a line
ServerSend(d) ==
    /\ Len(sent) < MaxLines
    /\ sent' = Append(sent, d)
    /\ inflight' = inflight \o Render(d) \o CRLF
    /\ UNCHANGED <<rx, gui_queue, handled>>
    /\ UNCHANGED <<limVars, sessVars, orchVars, sockVars, notIn>>

\* sock.recv returns all the bytes that arrived or the first half of them
RecvSizes(n) == {n \div 2, n} \ {0}

\* lines 197-213: data arrives, the buffer is split and every complete line
\* is handled
RecvData(k) ==
    /\ inflight # <<>>
    /\ k \in RecvSizes(Len(inflight))
    /\ LET sp == SplitLines(rx.buffer \o SubSeq(inflight, 1, k))
           st == HandleLines(sp[1], [rx |-> [rx EXCEPT !.buffer = sp[2]],
                                     gui |-> gui_queue, handled |-> handled])
       IN  /\ rx' = st.rx
           /\ gui_queue' = st.gui
           /\ handled' = st.handled
    /\ inflight' = SubSeq(inflight, k + 1, Len(inflight))
    /\ UNCHANGED sent
    /\ UNCHANGED <<limVars, sessVars, orchVars, sockVars, notIn>>

\* IRCShard.__init__ and connect() for the channel foo
InitInbound ==
    /\ rx = [channels |-> <<Foo>>, buffer |-> <<>>,
             message_count |-> 0, pongs |-> 0, up |-> TRUE,
             channel_users |-> [c \in {Foo} |-> {}]]
    /\ gui_queue = <<>>
    /\ handled = <<>>
    /\ sent = <<>>
    /\ inflight = <<>>
    /\ LimIdle /\ SessIdle /\ OrchIdle /\ SockIdle /\ NotInIdle

MaxRecv == 72              \* symbols one recv returns at most: two lines

NextInbound ==
    \/ \E d \in ServerLines : ServerSend(d)
    \/ \E k \in 1..MaxRecv : RecvData(k)

SpecInbound == InitInbound /\ [][NextInbound]_vars

\* the i-th complete line was handled and was of the form f
Handled(i, f) == i \in DOMAIN handled /\ sent[i].form = f

\* C16: every complete PING line is answered with exactly one PONG and puts
\* no event on the gui queue, changes no presence set and leaves the message
\* count alone; no other line makes the session write a PONG.
C16_PingPong ==
    /\ \A i \in DOMAIN handled :
          Handled(i, "ping") =>
              /\ handled[i].pongs = 1
              /\ handled[i].events = <<>>
              /\ handled[i].counted = 0
              /\ ~handled[i].presence
    /\ rx.pongs = Cardinality({i \in DOMAIN handled : sent[i].form = "ping"})

\* a PING was answered after a chat line had put its event
C16_Witness ==
    /\ Len(handled) = 2
    /\ Handled(1, "chat") /\ Handled(2, "ping")
    /\ rx.pongs = 1
    /\ Len(gui_queue) = 1

\* the event a well-formed chat line is to yield, with the given body
ChatEvent(d, body) ==
    [chan |-> Lower(d.chan), kind |-> "CHAT",
     text |-> Lower(d.user) \o <<":", " ">> \o body]

\* C17: a well-formed chat line, with or without tags, puts exactly one
\* CHAT event on the gui queue, with the channel in lower case without '#',
\* the user in lower case and the text with the blanks at its ends removed,
\* and adds one to the message count.
C17_ChatParsed ==
    /\ \A i \in DOMAIN handled :
          Handled(i, "chat") =>
              /\ handled[i].events = <<ChatEvent(sent[i], Strip(sent[i].text))>>
              /\ handled[i].counted = 1
              /\ handled[i].pongs = 0
    /\ rx.message_count >= Cardinality({i \in DOMAIN handled : sent[i].form = "chat"})

\* C17 as stated: the body of the event is the text of the line as it is
C17_AsStated ==
    \A i \in DOMAIN handled :
        Handled(i, "chat") =>
            /\ handled[i].events = <<ChatEvent(sent[i], sent[i].text)>>
            /\ handled[i].counted = 1

\* ":alice!alice@x PRIVMSG #foo :hello" yielded (foo, CHAT, "alice: hello"),
\* and a tagged line with upper-case names its event in lower case
C17_Witness ==
    /\ Len(handled) = 2
    /\ sent[1] = [form |-> "chat", tags |-> <<>>, user |-> Alice,
                  chan |-> Foo, text |-> Hello]
    /\ gui_queue[1] = [chan |-> Foo, kind |-> "CHAT",
                       text |-> <<"a", "l", "i", "c", "e", ":", " ",
                                  "h", "e", "l", "l", "o">>]
    /\ sent[2].form = "chat" /\ sent[2].tags # <<>>
    /\ sent[2].user = <<"A", "l", "i", "c", "e">> /\ sent[2].chan = <<"F", "o", "o">>
    /\ gui_queue[2] = [chan |-> Foo, kind |-> "CHAT",
                       text |-> Alice \o <<":", " ">> \o HiAll]
    /\ rx.message_count = 2
    /\ rx.channel_users[Foo] = {Alice}

\* C18: a chat line without the ':' that begins the text is dropped: no
\* event is put on the gui queue, the message count and the presence sets
\* stay as they are, nothing is raised and the session stays connected.
C18_MalformedDropped ==
    \A i \in DOMAIN handled :
        Handled(i, "nosep") =>
            /\ handled[i].events = <<>>
            /\ handled[i].counted = 0
            /\ ~handled[i].presence
            /\ handled[i].up

(***************************************************************************)
(*                  IRCShard.cleanup (irc.py:233-251)                      *)
(* run() ends in cleanup() once `while self.running` is false.  A closing  *)
(* session is at                                                           *)
(*   "run"       in the loops of run()                                     *)
(*   "part"      in the loop of part_channels                (119-124)     *)
(*   "close"     before `if self.sock:`                      (236-240)     *)
(*   "snapshot"  before `if self.data_dir:`                  (241-251)     *)
(*   "terminated"                                                          *)
(* sock is "none" (run() never connected), "open", or "closed" (stop()     *)
(* closed it).  owned and steps are history: the channels at the start of  *)
(* cleanup() and what cleanup() did, in order.                             *)
(***************************************************************************)
MaxOwned    == 3           \* channels of the closing session
MaxMessages == 1           \* chat messages it has counted
ClosingIds  == 1..2

NewCloser(channels, sock, data_dir, count) ==
    [channels |-> channels, sock |-> sock, data_dir |-> data_dir,
     message_count |-> count,
     limiter |-> NewLimiter(MSG_LIMIT, MSG_WINDOW, MIN_MSG_DELAY),
     pc |-> "run", todo |-> <<>>, owned |-> <<>>, steps |-> <<>>, failed |-> 0]

\* the outer loop of run() ends: cleanup() begins, and with a socket and
\* channels it calls part_channels(self.channels)
BeginCleanup(s) ==
    /\ s \in DOMAIN closer
    /\ closer[s].pc = "run"
    /\ LET r == closer[s] IN
       closer' = [closer EXCEPT ![s] =
           [r EXCEPT !.owned = r.channels,
                     !.todo = IF r.sock # "none" THEN r.channels ELSE <<>>,
                     !.pc = IF r.sock # "none" /\ r.channels # <<>>
                            THEN "part" ELSE "close"]]
    /\ UNCHANGED files
    /\ UNCHANGED <<limVars, sessVars, orchVars, sockVars, notClose>>

\* `self.channels = [c for c in self.channels if c not in channels_to_part]`
\* where cleanup() passed self.channels itself
Remaining(channels, channels_to_part) ==
    SelectSeq(channels, LAMBDA c : c \notin Range(channels_to_part))

\* lines 119-125: one PART is sent, or the send raises and is passed over;
\* after the last one the session's channel list is rebuilt
PartOne(s) ==
    /\ s \in DOMAIN closer
    /\ closer[s].pc = "part"
    /\ \E ok \in BOOLEAN :
         /\ closer[s].sock = "closed" => ~ok
         /\ LET r == closer[s] IN
            closer' = [closer EXCEPT ![s] =
                [r EXCEPT !.todo = Tail(r.todo),
                          !.steps = Append(r.steps, <<"part", Head(r.todo)>>),
                          !.failed = IF ok THEN r.failed ELSE r.failed + 1,
                          !.channels = IF Len(r.todo) = 1
                                       THEN Remaining(r.channels, r.owned)
                                       ELSE r.channels,
                          !.pc = IF Len(r.todo) = 1 THEN "close" ELSE "part"]]
    /\ UNCHANGED files
    /\ UNCHANGED <<limVars, sessVars, orchVars, sockVars, notClose>>

\* lines 236-240: the socket, if there is one, is closed
CloseSocket(s) ==
    /\ s \in DOMAIN closer
    /\ closer[s].pc = "close"
    /\ LET r == closer[s] IN
       closer' = [closer EXCEPT ![s] =
           IF r.sock = "none" THEN [r EXCEPT !.pc = "snapshot"]
           ELSE [r EXCEPT !.sock = "closed",
                          !.steps = Append(r.steps, <<"close", 0>>),
                          !.pc = "snapshot"]]
    /\ UNCHANGED files
    /\ UNCHANGED <<limVars, sessVars, orchVars, sockVars, notClose>>

SnapshotNever(r) == FALSE
\* `if self.data_dir:`
SnapshotDue(r) == r.data_dir

\* lines 241-251: the metrics file is written; cleanup() and run() return
WriteSnapshot(s) ==
    /\ s \in DOMAIN closer
    /\ closer[s].pc = "snapshot"
    /\ IF SnapshotDue(closer[s])
       THEN /\ files' = Append(files,
                   [shard_id |-> s, channels |-> closer[s].channels,
                    message_count |-> closer[s].message_count,
                    rate_limiter_metrics |-> closer[s].limiter.metrics])
            /\ closer' = [closer EXCEPT ![s].steps = Append(@, <<"snapshot", 0>>),
                                        ![s].pc = "terminated"]
       ELSE /\ closer' = [closer EXCEPT ![s].pc = "terminated"]
            /\ UNCHANGED files
    /\ UNCHANGED <<limVars, sessVars, orchVars, sockVars, notClose>>

\* two sessions that run: the first owns the channels 1..n, the second the
\* channel after them
InitClosing ==
    /\ \E n \in 1..MaxOwned, k1, k2 \in {"none", "open", "closed"},
          d \in BOOLEAN, m \in 0..MaxMessages :
         closer = <<NewCloser([i \in 1..n |-> i], k1, d, m),
                    NewCloser(<<n + 1>>, k2, d, 0)>>
    /\ files = <<>>
    /\ LimIdle /\ SessIdle /\ OrchIdle /\ SockIdle /\ NotCloseIdle

NextClosing ==
    \/ \E s \in ClosingIds : BeginCleanup(s)
    \/ \E s \in ClosingIds : PartOne(s)
    \/ \E s \in ClosingIds : CloseSocket(s)
    \/ \E s \in ClosingIds : WriteSnapshot(s)

SpecClosing == InitClosing /\ [][NextClosing]_vars

\* what cleanup() is to do for r, in order
ClosingSteps(r) ==
    (IF r.sock = "none" THEN <<>>
     ELSE [i \in 1..Len(r.owned) |-> <<"part", r.owned[i]>>] \o <<(<<"close", 0>>)>>)
    \o (IF r.data_dir THEN <<(<<"snapshot", 0>>)>> ELSE <<>>)

SnapshotsOf(s) == {i \in DOMAIN files : files[i].shard_id = s}

\* C19: a session terminates only at the end of cleanup(), which has then
\* tried a PART for every channel it owned (a failed send is passed over),
\* closed the socket and written the snapshot, in this order; a terminated
\* session with a data directory has written exactly one snapshot.
C19_ClosingOrder ==
    \A s \in DOMAIN closer :
        LET r == closer[s] IN
        /\ r.pc = "terminated" =>
              /\ r.steps = ClosingSteps(r)
              /\ r.sock # "open"
              /\ r.data_dir => Cardinality(SnapshotsOf(s)) = 1
        /\ r.pc # "terminated" =>
              /\ \E k \in 0..Len(ClosingSteps(r)) : r.steps = SubSeq(ClosingSteps(r), 1, k)
              /\ r.pc # "run" /\ r.data_dir => r.steps # ClosingSteps(r)
              /\ SnapshotsOf(s) = {}

\* a session whose PART sends partly failed closed its socket and wrote its
\* snapshot
C19_Witness ==
    \E s \in DOMAIN closer :
        /\ closer[s].pc = "terminated"
        /\ Len(closer[s].owned) = MaxOwned
        /\ closer[s].failed > 0 /\ closer[s].failed < MaxOwned
        /\ Cardinality(SnapshotsOf(s)) = 1

\* C20: the snapshot a session writes names, as its channels, the channels
\* the session owned when cleanup() began, beside its id, message count and
\* limiter metrics.
C20_SnapshotChannels ==
    \A i \in DOMAIN files :
        /\ files[i].channels = closer[files[i].shard_id].owned
        /\ files[i].message_count = closer[files[i].shard_id].message_count
        /\ files[i].rate_limiter_metrics = closer[files[i].shard_id].limiter.metrics

(***************************************************************************)
(*                 QueueBridge (web/queue_bridge.py)                       *)
(* Every producer puts 3-tuples on context.gui_queue; the bridge thread is *)
(* its only consumer.  A Python string is the record [str |-> s], the live *)
(* data of a channel (twitch_monitor_web.py:228-233) a record with the     *)
(* dict's keys.  Channel names and texts are strings here.                 *)
(***************************************************************************)
MaxPuts == 3               \* items put on the inbound queue in one run

Str(s) == [str |-> s]
\* `isinstance(stream_info, dict)`
IsDict(v) == "str" \notin DOMAIN v

BridgeChans == {"foo", "bar"}

\* get_live_status, lines 228-233: the entry of a live channel
LiveData(ch, thumb) ==
    [user |-> ch, game |-> "chess", viewers |-> 7, thumb_bytes |-> thumb]

\* the items monitor_loop puts (lines 388, 396, 402)
MonitorItems ==
    {<<ch, "SYSTEM", Str("went offline")>> : ch \in BridgeChans}
        \cup {<<"ONLINE_PROMPT", "SYSTEM", LiveData("bar", None)>>}
        \cup {<<"GUI_UPDATE_META", "foo", LiveData("foo", t)>> : t \in {None, 1}}

\* routes.join_channel (line 224) and handle_join_channel (line 289)
JoinItems ==
    {<<"GUI_JOIN_NOW", "SYSTEM", Str("bar")>>, <<"bar", "SYSTEM", Str("Joined bar")>>}

\* the items a session puts: connect (irc.py:278, 281), the outgoing block
\* (190), parse_privmsg (317, 324) and parse_notice (370)
SessionItems ==
    {<<"foo", "SYSTEM", Str("Bot joined")>>,
     <<"SYSTEM", "SYSTEM", Str("Shard shard_0 connected to 1 channels")>>,
     <<"foo", "SELF", Str("You: hi")>>,
     <<"foo", "CHAT", Str("alice: hi")>>,
     <<"EXPERIMENT_DATA", "DATA", Str("[foo] spike: 3")>>,
     <<"foo", "SYSTEM", Str("[NOTICE] slow mode")>>}

\* whisper_worker (whisper.py:118)
WhisperItems == {<<"foo", "TRANSCRIPT", Str("[00:05] hello")>>}

ProducerItems == MonitorItems \cup JoinItems \cup SessionItems \cup WhisperItems

\* base64.b64encode(thumb_bytes).decode('utf-8'), lines 124-131
Base64(thumb_bytes) ==
    IF thumb_bytes = None THEN None ELSE thumb_bytes + 100

\* _handle_metadata, lines 119-138
HandleMetadata(channel, meta) ==
    <<[event |-> "channel_meta", channel |-> channel, game |-> meta.game,
       viewers |-> meta.viewers, thumbnail |-> Base64(meta.thumb_bytes)]>>

ReservedNever(channel) == FALSE
\* `channel in ['SYSTEM', 'EXPERIMENT_DATA']`
IsReserved(channel) == channel \in {"SYSTEM", "EXPERIMENT_DATA"}

\* _dispatch, lines 62-117, at clock reading t: the emissions it makes
BridgeDispatch(item, t) ==
    IF item[1] = "GUI_UPDATE_META" THEN HandleMetadata(item[2], item[3])
    ELSE IF item[1] = "ONLINE_PROMPT"
    THEN LET stream_info == item[3]
             channel == IF IsDict(stream_info) THEN stream_info.user
                        ELSE stream_info.str
         IN  <<[event |-> "stream_online", channel |-> channel,
                info |-> IF IsDict(stream_info) THEN stream_info
                         ELSE [user |-> channel]]>>
    ELSE IF item[1] = "GUI_JOIN_NOW"
    THEN <<[event |-> "channel_joined", channel |-> item[3].str]>>
    ELSE IF Len(item) = 3 /\ ~IsReserved(item[1])
    THEN <<[event |-> "chat_message", channel |-> item[1], tag |-> item[2],
            text |-> item[3].str, timestamp |-> t]>>
    ELSE <<>>

\* everything but the inbound queue and the bridge
besideBridge == <<limVars, sessVars, orchVars, sockVars, capVars, outVars,
                  lockVars, closeVars, whisperVars, monVars, reqVars, rx,
                  handled, sent, inflight,
              linkVars,
              botVars,
              memberVars,
              lifeVars>>

\* QueueBridge.__init__ and start(), lines 26-37: the thread is in
\* gui_queue.get(timeout=0.1)
NewBridge == [running |-> TRUE, pc |-> "get"]

\* a producer's gui_queue.put(item)
QueuePut(item) ==
    /\ Len(arrived) < MaxPuts
    /\ gui_queue' = Append(gui_queue, item)
    /\ arrived' = Append(arrived, item)
    /\ UNCHANGED <<bridge, emitted, dequeued>>
    /\ UNCHANGED besideBridge

NewestItem(q) == q[Len(q)]
\* `self.context.gui_queue.get(timeout=0.1)`: the oldest item
NextItem(q) == Head(q)

\* _poll_loop, lines 52-56: get() returns the head and _dispatch handles it;
\* then `while self.running` is tested
PollItem ==
    /\ bridge.pc = "get"
    /\ gui_queue # <<>>
    /\ LET item == NextItem(gui_queue)
           out  == BridgeDispatch(item, now)
       IN  /\ gui_queue' = Tail(gui_queue)
           /\ emitted' = emitted \o out
           /\ dequeued' = Append(dequeued, [item |-> item, out |-> out])
    /\ bridge' = [bridge EXCEPT !.pc = IF bridge.running THEN "get" ELSE "exited"]
    /\ UNCHANGED arrived
    /\ UNCHANGED besideBridge

\* lines 57-58 after stop(): get() timed out and the loop ends
PollEmpty ==
    /\ bridge.pc = "get"
    /\ gui_queue = <<>>
    /\ ~bridge.running
    /\ bridge' = [bridge EXCEPT !.pc = "exited"]
    /\ UNCHANGED <<gui_queue, emitted, arrived, dequeued>>
    /\ UNCHANGED besideBridge

\* QueueBridge.stop, line 42
BridgeStop ==
    /\ bridge.running
    /\ bridge' = [bridge EXCEPT !.running = FALSE]
    /\ UNCHANGED <<gui_queue, emitted, arrived, dequeued>>
    /\ UNCHANGED besideBridge

InitBridge ==
    /\ bridge = NewBridge
    /\ emitted = <<>>
    /\ arrived = <<>>
    /\ dequeued = <<>>
    /\ LimIdle /\ SessIdle /\ OrchIdle /\ SockIdle /\ NotBridgeIdle

NextBridge ==
    \/ \E item \in ProducerItems : QueuePut(item)
    \/ PollItem
    \/ PollEmpty
    \/ BridgeStop

SpecBridge == InitBridge /\ [][NextBridge]_vars

BridgeTags == {"GUI_UPDATE_META", "ONLINE_PROMPT", "GUI_JOIN_NOW"}

\* the dequeued item i made exactly one emission, of event e
OneEmission(i, e) ==
    /\ Len(dequeued[i].out) = 1
    /\ dequeued[i].out[1].event = e

\* C21: the bridge routes each dequeued item by its tag: a metadata update
\* makes exactly one channel_meta emission, an online prompt exactly one
\* stream_online, a channel-joined item exactly one channel_joined; a generic
\* (channel, kind, text) item of a reserved channel (SYSTEM, EXPERIMENT_DATA)
\* makes none, and every other generic item exactly one chat_message with
\* the same channel, kind and text.
C21_Routing ==
    \A i \in DOMAIN dequeued :
        LET item == dequeued[i].item
            out  == dequeued[i].out
        IN  /\ item[1] = "GUI_UPDATE_META" => OneEmission(i, "channel_meta")
            /\ item[1] = "ONLINE_PROMPT" => OneEmission(i, "stream_online")
            /\ item[1] = "GUI_JOIN_NOW" => OneEmission(i, "channel_joined")
            /\ item[1] \in {"SYSTEM", "EXPERIMENT_DATA"} => out = <<>>
            /\ item[1] \notin BridgeTags \cup {"SYSTEM", "EXPERIMENT_DATA"} =>
                  /\ OneEmission(i, "chat_message")
                  /\ out[1].channel = item[1]
                  /\ out[1].tag = item[2]
                  /\ out[1].text = item[3].str

\* a tagged item, an item of a reserved channel and a chat line have been
\* dispatched
C21_Witness ==
    /\ \E i \in DOMAIN dequeued : dequeued[i].item[1] \in BridgeTags
    /\ \E i \in DOMAIN dequeued : dequeued[i].item[1] = "SYSTEM"
    /\ \E i \in DOMAIN dequeued :
          /\ dequeued[i].item = <<"foo", "CHAT", Str("alice: hi")>>
          /\ emitted[Len(emitted)].event = "chat_message"

\* the bridge thread is a daemon thread that keeps running: an item it can
\* get is got
FairSpecBridge == SpecBridge /\ WF_vars(PollItem)

DequeuedItems == [k \in DOMAIN dequeued |-> dequeued[k].item]
DequeuedOuts  == [k \in DOMAIN dequeued |-> dequeued[k].out]

\* C22: every event put on the inbound queue is dequeued by the bridge
\* exactly once and the emissions occur in the order of the dequeues, which
\* is the arrival order: the items got so far followed by the items still
\* queued are the items put, in order; the emissions are those of the items
\* got, in order, none twice; and unless the bridge thread has ended, again
\* and again every item put so far has been got.
C22_Fifo ==
    /\ [](DequeuedItems \o gui_queue = arrived)
    /\ [](emitted = Concat(DequeuedOuts))
    /\ []<>(Len(dequeued) = Len(arrived) \/ bridge.pc = "exited")

\* two different events were put and emitted in their arrival order while a
\* third one waits
C22_Witness ==
    /\ Len(emitted) = 2
    /\ Len(dequeued) = 2
    /\ arrived[1] = <<"foo", "CHAT", Str("alice: hi")>>
    /\ arrived[2] = <<"GUI_JOIN_NOW", "SYSTEM", Str("bar")>>
    /\ emitted[1].event = "chat_message"
    /\ emitted[2].event = "channel_joined"
    /\ gui_queue # <<>>

\* the step is made by handle_join_channel in the join thread or by the
\* offline handling of monitor_loop
OrchestratorStep ==
    \/ thr["jp"].pc = "jp_pick" /\ thr'["jp"].pc = "rb_stop"
    \/ thr["mon"].pc = "mon_sleep" /\ thr'["mon"].pc = "rb_stop"

\* C23: the active-channel set is changed only by orchestrator actions (the
\* join entry point and the offline handling of the monitor loop): a step of
\* a session, a worker, the bridge or an HTTP handler leaves it as it is.
C23_OnlyOrchestrator ==
    [][active_channels' # active_channels => OrchestratorStep]_vars

(***************************************************************************)
(*     The transcription worker: start_whisper_if_needed, whisper_worker   *)
(* The orchestration threads run as above while the sessions they start    *)
(* stay in their first connect().  start_whisper_if_needed has one caller, *)
(* full_initialization; here it may be called again at any moment.         *)
(***************************************************************************)
NeverStarted(flag) == FALSE
\* `if whisper_started: return`
AlreadyStarted(flag) == flag

\* start_whisper_if_needed, lines 455-471
StartWhisperIfNeeded ==
    /\ IF AlreadyStarted(whisper_started)
       THEN UNCHANGED <<procs, whisper_started>>
       ELSE /\ procs' = Append(procs, [kind |-> "whisper", chan |-> 0,
                                       alive |-> TRUE])
            /\ whisper_started' = TRUE
    /\ UNCHANGED <<active_channels, channels_with_workers, shards, audio_procs,
                   thr, joinsLeft, offlineLeft, boot, sentinels_put>>
    /\ UNCHANGED <<limVars, sessVars, sockVars, notWhisper, whisper_exit>>

\* whisper_worker returns: the model failed to load or a transcription
\* raised (whisper.py:149-151), or the sentinel was on the control queue
\* (line 71)
WhisperExitReasons == {"load", "transcribe", "sentinel"}

WhisperExit(why) ==
    /\ \E p \in DOMAIN procs :
         /\ procs[p].kind = "whisper" /\ procs[p].alive
         /\ procs' = [procs EXCEPT ![p].alive = FALSE]
    /\ why = "sentinel" => control_queue > 0
    /\ control_queue' = IF why = "sentinel" THEN control_queue - 1
                        ELSE control_queue
    /\ whisper_exit' = why
    /\ UNCHANGED <<active_channels, channels_with_workers, shards, audio_procs,
                   thr, joinsLeft, offlineLeft, boot, sentinels_put>>
    /\ UNCHANGED <<sess, send_queue, netFails>>
    /\ UNCHANGED <<limVars, sockVars, notWhisper, whisper_started>>

\* main has started its threads; one channel will be joined and go offline
InitWhisper ==
    /\ active_channels = {}
    /\ channels_with_workers = {}
    /\ shards = <<>>
    /\ audio_procs = <<>>
    /\ procs = <<>>
    /\ thr = [t \in Threads |-> NewThread(IF t = "jp" THEN "jp_sleep" ELSE "mon_sleep")]
    /\ joinsLeft = 1
    /\ offlineLeft = 1
    /\ boot = "off"
    /\ sentinels_put = 0
    /\ SessIdle /\ LimIdle /\ SockIdle /\ ExtIdle

NextWhisper ==
    \/ JoinRoute(1)
    \/ MonPoll({1})
    \/ JPStep
    \/ MonStep
    \/ PutShutdown
    \/ StartWhisperIfNeeded
    \/ \E why \in WhisperExitReasons : WhisperExit(why)

SpecWhisper == InitWhisper /\ [][NextWhisper]_vars

WhisperProcs == {p \in DOMAIN procs : procs[p].kind = "whisper"}

\* C24: over any run at most one transcription worker is ever started, and
\* once it has exited (model-load failure, transcription error or the
\* shutdown sentinel) the orchestrator never starts another one, whatever
\* joins, rebuilds and polls follow: the list of processes never holds a
\* second one, and a step never adds one while the first is dead.
C24_SingleWhisper ==
    /\ [](Cardinality(WhisperProcs) <= 1)
    /\ [][whisper_exit # "none" =>
             {p \in DOMAIN procs' : procs'[p].kind = "whisper" /\ procs'[p].alive}
                 = {}]_vars

\* the worker was started before any capture worker and exited; a join
\* with its rebuild and worker update and an offline poll have run
C24_Witness ==
    /\ whisper_exit = "transcribe"
    /\ whisper_started
    /\ Cardinality(WhisperProcs) = 1
    /\ procs[1].kind = "whisper"
    /\ channels_with_workers # {}
    /\ active_channels = {}

\* C25: after a transient network failure of a session (a failed connection
\* attempt, or an error, a reset or a close by the peer while connected) the
\* session is not terminated by the failure, only by stop or the sentinel,
\* and its next connection attempt is preceded by a backoff wait of the
\* current delay: a session enters connect() again only from that wait, and
\* it terminates only with its running flag cleared.
C25_RetryAfterBackoff ==
    [][\A s \in DOMAIN sess \cap DOMAIN sess' :
          /\ (sess[s].pc # "connecting" /\ sess'[s].pc = "connecting")
                => /\ sess[s].pc = "backoff"
                   /\ sess[s].wait = sess[s].reconnect_delay
          /\ (Live(s) /\ sess'[s].pc = "terminated") => ~sess'[s].running]_vars

(***************************************************************************)
(*          The live-status poll: get_live_status and monitor_loop         *)
(* Every channel of Channels is followed, joined and served when the run   *)
(* begins.  A pass of monitor_loop asks for an app token, then for the     *)
(* streams of the followed channels (one request: fewer than 100).         *)
(* last_poll records the latest pass: whether a request failed, the active *)
(* set before it and the channels it reported offline (the notices of      *)
(* line 388).                                                              *)
(***************************************************************************)
\* get_live_status, lines 199-237: the names of live_data.  An exception of
\* the request is caught inside the loop (lines 234-235) and the batch adds
\* nothing.
GetLiveStatus(api_ok, live) == IF api_ok THEN live ELSE {}

\* `[ch for ch in context.active_channels if ch.lower() not in current_live_names]`
WentOffline(active, current_live_names) == active \ current_live_names

\* one pass of monitor_loop, lines 377-420, up to the call of rebuild_shards.
\* A failing get_app_access_token raises into the handlers of lines 411-420.
MonitorPass(token_ok, api_ok, live) ==
    /\ thr["mon"].pc = "mon_sleep"
    /\ LET off == IF token_ok
                  THEN WentOffline(active_channels, GetLiveStatus(api_ok, live))
                  ELSE {}
       IN  /\ off # {} => offlineLeft > 0
           /\ active_channels' = active_channels \ off
           /\ offlineLeft' = IF off # {} THEN offlineLeft - 1 ELSE offlineLeft
           /\ thr' = IF off # {}
                     THEN [thr EXCEPT !["mon"] =
                              [@ EXCEPT !.pc = "rb_stop", !.off = off]]
                     ELSE thr
           /\ last_poll' = [failed |-> ~token_ok \/ ~api_ok,
                            before |-> active_channels, off |-> off]
    /\ UNCHANGED <<channels_with_workers, shards, audio_procs, procs, joinsLeft,
                   boot, sentinels_put>>
    /\ UNCHANGED <<limVars, sessVars, sockVars, notMon>>

InitPoll ==
    /\ active_channels = Channels
    /\ Settled(Channels, TRUE)
    /\ thr = [t \in Threads |-> NewThread(IF t = "jp" THEN "jp_sleep" ELSE "mon_sleep")]
    /\ joinsLeft = 0
    /\ offlineLeft = MaxOffline
    /\ boot = "off"
    /\ sentinels_put = 0
    /\ control_queue = 0
    /\ send_queue = <<>>
    /\ netFails = 0
    /\ LimIdle /\ SockIdle /\ ExtIdle

NextPoll ==
    \/ \E token_ok, api_ok \in BOOLEAN, live \in SUBSET Channels :
          MonitorPass(token_ok, api_ok, live)
    \/ MonStep
    \/ \E s \in SessIds : SessionStep(s)

SpecPoll == InitPoll /\ [][NextPoll]_vars

\* C26: a live-status poll that fails (API or network error) changes
\* nothing: the active set, the sessions and the capture workers are as
\* before the poll and no channel is reported offline; a channel leaves the
\* active set only when a successful poll reports it as not live.
C26_FailedPollNoChange ==
    /\ [][thr["mon"].pc = "mon_sleep" /\ last_poll'.failed =>
             /\ active_channels' = active_channels
             /\ last_poll'.off = {}
             /\ UNCHANGED <<sess, shards, audio_procs, procs, thr>>]_last_poll
    /\ [][active_channels' # active_channels => ~last_poll'.failed]_vars

\* a SystemNotice is on the inbound queue: an item of kind SYSTEM
NoticeQueued == \E i \in DOMAIN gui_queue : gui_queue[i][2] = "SYSTEM"

\* C27: every degraded condition (a session's failed or retried connection,
\* a capture chunk dropped by backpressure, a crashed worker) results in a
\* SystemNotice on the inbound queue, which the bridge delivers: once a
\* capture worker has dropped a chunk, or a session waits to reconnect, the
\* notice has been put.
C27_DegradedNoticed ==
    /\ \A p \in DOMAIN capture : capture[p].last = "dropped" => NoticeQueued
    /\ \A s \in DOMAIN sess : sess[s].pc = "backoff" => NoticeQueued

(***************************************************************************)
(*        Subscribers' send requests (web/socket_events.py)                *)
(* register() installs the handlers of `connect` and `disconnect` only:    *)
(* the definition of handle_send_chat, with its decorator, stands in the   *)
(* body of _trigger_shutdown after os._exit(0) and is never executed.  A   *)
(* send_chat event of a subscriber reaches a handler only if one is        *)
(* registered.  A message is a sequence of characters, None is the missing *)
(* channel: data.get('channel') of a request without one.                  *)
(***************************************************************************)

\* the events register() installs a handler for, lines 23 and 43
RegisteredEvents == {"connect", "disconnect"}

\* the body of handle_send_chat, lines 66-79: the send queue afterwards
HandleSendChat(q, channel, message) ==
    LET stripped == Strip(message) IN
    IF channel # None /\ stripped # <<>>
    THEN Append(q, <<channel, stripped>>)
    ELSE q

RequestMessages == {<<"h", "i">>, <<" ", "h", "i", " ">>, <<" ">>, <<>>}

\* a subscriber emits send_chat with {channel, message}
SendRequest(channel, message) ==
    /\ Len(requests) < MaxSendReq
    /\ requests' = Append(requests, [channel |-> channel, message |-> message])
    /\ send_queue' = IF "send_chat" \in RegisteredEvents
                     THEN HandleSendChat(send_queue, channel, message)
                     ELSE send_queue
    /\ UNCHANGED <<sess, control_queue, netFails>>
    /\ UNCHANGED <<limVars, orchVars, sockVars, notReq>>

InitRequest == InitSendPath

\* the sessions find the send queue empty in every iteration
NextRequest ==
    \/ \E c \in SendTargets \cup {None}, m \in RequestMessages :
          SendRequest(c, m)
    \/ \E s \in OutIds : GetItem(s)
    \/ \E s \in OutIds : NextIteration(s)
    \/ Elapse

SpecRequest == InitRequest /\ [][NextRequest]_vars

\* C28: a subscriber's send request with a non-empty channel and a
\* non-blank message puts exactly one (channel, message) item on the send
\* queue, from which a connected session eventually sends it; a request with
\* an empty channel or a blank message puts nothing.  The step of a request
\* appends one item for the request's channel in the first case and leaves
\* the queue alone in the second.
C28_RequestQueued ==
    [][LET r == requests'[Len(requests')] IN
       IF r.channel # None /\ Strip(r.message) # <<>>
       THEN /\ Len(send_queue') = Len(send_queue) + 1
            /\ send_queue'[Len(send_queue')][1] = r.channel
       ELSE send_queue' = send_queue]_requests

(***************************************************************************)
(* rebuild_shards called twice on the same active set: a select request    *)
(* added two channels at once, and the join thread calls                   *)
(* handle_join_channel for each of them in turn.  The session created      *)
(* i-th by a call has the ordinal i - 1 (`shard_{i // 10}`, line 254) and  *)
(* the i-th place of the list.                                             *)
(***************************************************************************)
\* the two largest channels of S
TopTwo(S) == {c \in S : Cardinality({d \in S : d > c}) < 2}

InitRebuildTwice ==
    /\ \E S \in ChannelSets :
         /\ Cardinality(S) >= 2
         /\ active_channels = S
         /\ Settled(S \ TopTwo(S), FALSE)
    /\ thr = [t \in Threads |-> NewThread(IF t = "jp" THEN "jp_sleep" ELSE "mon_sleep")]
    /\ joinsLeft = 0
    /\ offlineLeft = 0
    /\ boot = "off"
    /\ sentinels_put = 0
    /\ control_queue = 0
    /\ send_queue = <<>>
    /\ netFails = 0
    /\ LimIdle /\ SockIdle /\ ExtIdle

SpecRebuildTwice == InitRebuildTwice /\ [][NextRebuild]_vars

\* the groups a call of rebuild_shards on the active set is to produce
ExpectedGroups ==
    LET n == Cardinality(active_channels) IN
    [k \in 1..CeilDiv(n, MAX_CHANNELS_PER_CONN) |->
        SubSeq(Sorted(active_channels), (k - 1) * MAX_CHANNELS_PER_CONN + 1,
               Min(k * MAX_CHANNELS_PER_CONN, n))]

\* the join thread is in its second call of handle_join_channel
SecondCall == thr["jp"].need = {} /\ thr["jp"].ch # 0

\* C29: rebuild_shards is idempotent on an unchanged active set: when the
\* second call begins, the list holds what the first call produced, and when
\* it has returned the list holds as many sessions, at the same ordinals,
\* with the same channel groups; every session that existed before the call
\* has been signalled to stop, and the list holds only the sessions the
\* latest call created, which run.
C29_RebuildIdempotent ==
    /\ (SecondCall /\ thr["jp"].pc = "rb_stop") => Groups = ExpectedGroups
    /\ (SecondCall /\ Rebuilt) =>
          /\ Groups = ExpectedGroups
          /\ \A s \in DOMAIN sess : (s \in Range(shards)) <=> sess[s].running

\* the second call has returned for 23 channels while a session of the
\* first call is still alive
C29_Witness ==
    /\ SecondCall /\ Rebuilt
    /\ [k \in DOMAIN shards |-> Len(Groups[k])] = <<10, 10, 3>>
    /\ \E s \in DOMAIN sess : s \notin Range(shards) /\ Live(s)

\* ---- presence tracking: the chat, JOIN and PART lines of two users in the
\* channel of the session and in a channel it has not joined, and a JOIN
\* line with upper-case names
Bob == <<"b", "o", "b">>
Bar == <<"b", "a", "r">>
PresenceLines ==
    {[form |-> f, tags |-> <<>>, user |-> u, chan |-> c, text |-> Hello] :
        f \in {"chat", "join", "part"}, u \in {Alice, Bob}, c \in {Foo, Bar}}
    \cup {[form |-> "join", tags |-> <<>>, user |-> <<"A", "l", "i", "c", "e">>,
           chan |-> <<"F", "o", "o">>, text |-> Hello]}

InitPresence == InitInbound

NextPresence ==
    \/ \E d \in PresenceLines : ServerSend(d)
    \/ \E k \in 1..MaxRecv : RecvData(k)

SpecPresence == InitPresence /\ [][NextPresence]_vars

\* C30: a chat line or a JOIN line of a user who is already in the presence
\* set of the channel leaves every presence set as it was and writes no
\* USER_PRESENT entry; a PART line takes the user out of the set of its
\* channel (nothing changes when the user is not in it) and writes no
\* USER_PRESENT entry; a line for a channel the session does not own changes
\* no presence set and writes no USER_PRESENT entry.  The sets of the
\* session are the ones the last line left.
C30_SpeakerIdempotent ==
    /\ handled # <<>> => rx.channel_users = handled[Len(handled)].users
    /\ \A i \in DOMAIN handled :
         LET h == handled[i]
             u == Lower(sent[i].user)
             c == Lower(sent[i].chan)
         IN  /\ ( /\ sent[i].form \in {"chat", "join"}
                  /\ c \in DOMAIN h.before
                  /\ u \in h.before[c] )
                    => h.users = h.before /\ h.present = <<>>
             /\ (sent[i].form = "part" /\ c \in DOMAIN h.before)
                    => /\ h.users = [h.before EXCEPT ![c] = h.before[c] \ {u}]
                       /\ h.present = <<>>
                       /\ u \notin h.before[c] => h.users = h.before
             /\ c \notin DOMAIN h.before
                    => h.users = h.before /\ h.present = <<>>

\* alice spoke in foo and was recorded once; then the JOIN line of Alice in
\* #Foo was handled and recorded nothing
C30_Witness ==
    /\ Len(handled) = 2
    /\ sent[1] = [form |-> "chat", tags |-> <<>>, user |-> Alice, chan |-> Foo,
                  text |-> Hello]
    /\ handled[1].present = <<[chan |-> Foo, user |-> Alice]>>
    /\ sent[2].form = "join" /\ sent[2].user # Alice /\ Lower(sent[2].user) = Alice
    /\ handled[2].before[Foo] = {Alice}
    /\ handled[2].present = <<>>
    /\ rx.channel_users[Foo] = {Alice}

(***************************************************************************)
(*      The connections of one session: IRCShard.run and connect()         *)
(* pc is "connecting" at line 161 and "loop" inside the inner loop.  The   *)
(* server writes the letter of the connection and the two characters of    *)
(* the line terminator; recv returns any non-empty prefix of what was      *)
(* written.  self.buffer is assigned in __init__ (line 91) and in the      *)
(* incoming block (lines 200-202) and nowhere else.  No statement of run() *)
(* or connect() closes self.sock: line 263 rebinds the attribute, and the  *)
(* socket it named is closed when the interpreter finalizes the object,    *)
(* at the rebinding or at a later collection.                              *)
(***************************************************************************)
MaxConns == 2              \* sockets a session creates in a run
MaxWire  == 3              \* bytes the server writes on one connection

Letters == <<"a", "b", "c", "d">>
Symbols == {"a", "b", "c", "d", "CR", "LF"}
\* the letter the server writes on the connection of socket id
Letter(id) == Letters[id]

\* IRCShard.__init__, lines 90-91, then start()
\* left is a history field: why the inner loop was left last
NewLink ==
    [pc |-> "connecting", sock |-> None, buffer |-> <<>>, made |-> 0,
     left |-> "none"]

\* the socket is released by line 263: finalized or left to the collector
Released(ss, old, finalized) ==
    IF old # None /\ finalized THEN [ss EXCEPT ![old] = "closed"] ELSE ss

\* connect(), lines 263-264: a new socket replaces self.sock and connects
\* or raises; after the sleep of line 229 the outer loop connects again
LinkConnect ==
    /\ link.pc = "connecting"
    /\ link.made < MaxConns
    /\ \E finalized \in BOOLEAN, ok \in BOOLEAN :
         LET id == link.made + 1 IN
         /\ socks' = Released(socks, link.sock, finalized) @@ (id :> "open")
         /\ link' = [link EXCEPT !.sock = id, !.made = id,
                                 !.pc = IF ok THEN "loop" ELSE "connecting"]
    /\ wire' = <<>>
    /\ got' = <<>>
    /\ UNCHANGED dispatched
    /\ UNCHANGED <<limVars, sessVars, orchVars, sockVars, notLink>>

\* the server writes one byte on the current connection
ServerWrite(sym) ==
    /\ link.pc = "loop"
    /\ sym \in {Letter(link.sock), "CR", "LF"}
    /\ Len(got) + Len(wire) < MaxWire
    /\ wire' = Append(wire, sym)
    /\ UNCHANGED <<link, socks, got, dispatched>>
    /\ UNCHANGED <<limVars, sessVars, orchVars, sockVars, notLink>>

NonEmpty(line) == line # <<>>
\* `for line in lines: if not line: continue`
Dispatched(lines) == SelectSeq(lines, NonEmpty)

\* `self.buffer += data` finds what the previous reads left, on this
\* connection or on an earlier one
BufferBefore(buffer) == buffer

\* lines 197-213: recv returns the first k bytes; the buffer is split and
\* the complete lines are dispatched
LinkRecv(k) ==
    /\ link.pc = "loop"
    /\ k \in 1..Len(wire)
    /\ LET data == SubSeq(wire, 1, k)
           sp   == SplitLines(BufferBefore(link.buffer) \o data)
           out  == Dispatched(sp[1])
       IN  /\ link' = [link EXCEPT !.buffer = sp[2]]
           /\ dispatched' = dispatched \o
                  [i \in 1..Len(out) |-> [sock |-> link.sock, line |-> out[i]]]
           /\ got' = got \o data
    /\ wire' = SubSeq(wire, k + 1, Len(wire))
    /\ UNCHANGED socks
    /\ UNCHANGED <<limVars, sessVars, orchVars, sockVars, notLink>>

BreakOutcomes == {"closed", "error"}

\* lines 198-199 and 216-222: an empty read or an error breaks out of the
\* inner loop, and the outer loop calls connect() again
LinkBreak(out) ==
    /\ link.pc = "loop"
    /\ out \in BreakOutcomes
    /\ link' = [link EXCEPT !.pc = "connecting", !.left = out]
    /\ wire' = <<>>
    /\ UNCHANGED <<socks, got, dispatched>>
    /\ UNCHANGED <<limVars, sessVars, orchVars, sockVars, notLink>>

InitLink ==
    /\ link = NewLink
    /\ socks = <<>>
    /\ wire = <<>>
    /\ got = <<>>
    /\ dispatched = <<>>
    /\ LimIdle /\ SessIdle /\ OrchIdle /\ SockIdle /\ NotLinkIdle

NextLink ==
    \/ LinkConnect
    \/ \E sym \in Symbols : ServerWrite(sym)
    \/ \E k \in 1..MaxWire : LinkRecv(k)
    \/ \E out \in BreakOutcomes : LinkBreak(out)

SpecLink == InitLink /\ [][NextLink]_vars

OpenSocks(ss) == {id \in DOMAIN ss : ss[id] = "open"}

\* C31: a session holds at most one open socket: when it has left the inner
\* loop on an empty read or a receive error and a socket is created for the
\* reconnect, every socket the session created before is closed.
C31_OneSocket ==
    [][ (link.left \in BreakOutcomes /\ DOMAIN socks' # DOMAIN socks)
            => OpenSocks(socks) = {} ]_vars

\* ---- the capture workers under update_audio_workers
CaptureWorkers(c) ==
    {p \in DOMAIN procs : procs[p].kind = "audio" /\ procs[p].alive /\ procs[p].chan = c}

\* a thread returns from update_audio_workers
PassCompletes(t) == thr[t].pc = "ua_start" /\ thr'[t].pc = AfterUpdate(t)

\* C32: at most one capture worker runs per channel, every running capture
\* worker is the one audio_procs records for its channel, and when a pass of
\* update_audio_workers completes the channels of audio_procs are the active
\* set, whichever of the two threads runs the pass.
C32_OneWorkerPerChannel ==
    /\ [](\A c \in Channels :
            /\ Cardinality(CaptureWorkers(c)) <= 1
            /\ \A p \in CaptureWorkers(c) :
                   c \in DOMAIN audio_procs /\ audio_procs[c] = p)
    /\ [][\A t \in DOMAIN thr :
            PassCompletes(t) => DOMAIN audio_procs' = active_channels']_vars

\* ---- the lines of one connection
\* the lines dispatched while the socket id was the session's
DispatchedOn(id) ==
    LET on(d) == d.sock = id
        ds == SelectSeq(dispatched, on)
    IN  [i \in 1..Len(ds) |-> ds[i].line]

\* what the bytes read on a connection amount to, however they were split:
\* the non-empty complete lines, in order, and the unterminated rest
SplitOf(data) ==
    [lines |-> Dispatched(SplitLines(data)[1]), rest |-> SplitLines(data)[2]]

\* C33: within one connection the lines dispatched are the non-empty
\* complete lines of the concatenation of the data read so far, each once
\* and in order, and the buffer holds the unterminated rest, whatever the
\* sizes of the reads were.
C33_SplitIndependent ==
    link # <<>> /\ link.pc = "loop"
        => /\ DispatchedOn(link.sock) = SplitOf(got).lines
           /\ link.buffer = SplitOf(got).rest

\* C38: a line dispatched on a connection consists of bytes received on that
\* connection: no letter another connection's server wrote is in it, so
\* the fragment an earlier connection left in the buffer is not part of it.
C38_FreshBuffer ==
    \A i \in DOMAIN dispatched :
        \A j \in DOMAIN dispatched[i].line :
            dispatched[i].line[j] \in {Letter(dispatched[i].sock), "CR", "LF"}

\* ---- what follows a written chat message (irc.py:177-190)
\* the items session s wrote to its socket, in order
WrittenBy(s) ==
    LET isPrivmsg(e) == e.ev = "privmsg"
        es == SelectSeq(sender[s].log, isPrivmsg)
    IN  [i \in 1..Len(es) |-> <<es[i].chan, es[i].msg>>]

\* the items the SELF events on the inbound queue stand for, in order
SelfPuts ==
    LET isSelf(e) == e.kind = "SELF"
        es == SelectSeq(gui_queue, isSelf)
    IN  [i \in 1..Len(es) |-> <<es[i].chan, es[i].text[2]>>]

\* the message of the latest SELF event of channel c
LastSelf(c) ==
    LET at == {i \in DOMAIN SelfPuts : SelfPuts[i][1] = c}
    IN  SelfPuts[CHOOSE i \in at : \A j \in at : j <= i][2]

\* C34: every item a session took and wrote has exactly one SELF event on
\* the inbound queue, and bot_state of its channel holds the message of the
\* channel's latest write; every SELF event stands for an item some session
\* wrote; and a session writes the items it took in the order it took them.
C34_SelfAfterWrite ==
    /\ \A s \in DOMAIN sender :
          /\ \A i \in DOMAIN WrittenBy(s) :
                /\ Cardinality({j \in DOMAIN SelfPuts : SelfPuts[j] = WrittenBy(s)[i]}) = 1
                /\ WrittenBy(s)[i][1] \in DOMAIN bot_state
          /\ LET written(it) == it \in Range(WrittenBy(s))
             IN  WrittenBy(s) = SelectSeq(sender[s].took, written)
    /\ \A j \in DOMAIN SelfPuts :
          \E s \in DOMAIN sender : SelfPuts[j] \in Range(WrittenBy(s))
    /\ \A c \in DOMAIN bot_state :
          /\ \E j \in DOMAIN SelfPuts : SelfPuts[j][1] = c
          /\ bot_state[c].last_msg = LastSelf(c)

\* a session took two items: the write of the first raised, the second was
\* written, recorded in bot_state and followed by its SELF event
C34_Witness ==
    \E s \in DOMAIN sender :
        /\ Len(sender[s].took) = 2
        /\ WrittenBy(s) = <<sender[s].took[2]>>
        /\ SelfPuts = <<sender[s].took[2]>>
        /\ bot_state[sender[s].took[2][1]].last_msg = sender[s].took[2][2]

(***************************************************************************)
(*     Dynamic membership: connect, join_channels and part_channels        *)
(* A channel name is one letter; "A" is the name "a" written in upper      *)
(* case.  self.channels is a list, self.channel_users a dict keyed by the  *)
(* lower-case names.  run() calls connect(self.channels) (line 161).       *)
(* History fields: last is the latest call with the state it found and     *)
(* the number of notices it put on the inbound queue, upper tells that a   *)
(* name with an upper-case letter was given to the session.                *)
(***************************************************************************)
MemberNames == {"a", "b", "A"}
MemberUsers == {"u"}
\* the lists a caller may pass: up to two names, repetitions included
MemberLists ==
    {<<>>} \cup {<<x>> : x \in MemberNames}
           \cup {<<x, y>> : x \in MemberNames, y \in MemberNames}

IsLowerName(c) == LowerChar(c) = c
AllLower(list) == \A i \in DOMAIN list : IsLowerName(list[i])

\* `{chan.lower(): set() for chan in channels}` and the loops of lines
\* 145-147 and 275-277: the entries of the names of list are set to set()
ResetUsers(cu, list) ==
    [c \in DOMAIN cu \cup {LowerChar(list[i]) : i \in DOMAIN list} |->
        IF \E i \in DOMAIN list : LowerChar(list[i]) = c THEN {} ELSE cu[c]]

\* IRCShard.__init__, lines 87-106
NewMember(channels) ==
    [sock |-> None, channels |-> channels,
     channel_users |-> ResetUsers(<<>>, channels),
     last |-> [op |-> "init"], upper |-> ~AllLower(channels)]

\* what a call found
Found(m) == [sock |-> m.sock, channels |-> m.channels,
             channel_users |-> m.channel_users]

ConnectStages == {"refused", "join_failed", "joined"}

\* connect(self.channels), lines 253-279: the socket is created, then
\* sock.connect or a send raises, or the presence sets are emptied
MemberConnect(stage) ==
    /\ stage \in ConnectStages
    /\ member' = [member EXCEPT
           !.sock = 1,
           !.channel_users =
               IF stage = "joined" THEN ResetUsers(@, member.channels) ELSE @,
           !.last = [op |-> "connect", stage |-> stage, found |-> Found(member),
                     puts |-> IF stage = "joined"
                              THEN Len(member.channels) + 1 ELSE 0]]
    /\ UNCHANGED <<limVars, sessVars, orchVars, sockVars, notMember>>

JoinAll(new_channels, channels) == new_channels
\* `[c for c in new_channels if c not in self.channels]`
NotOwned(new_channels, channels) ==
    LET fresh(c) == c \notin Range(channels) IN SelectSeq(new_channels, fresh)

\* join_channels, lines 132-156; ok: the JOIN send returned
JoinChannels(new_channels, ok) ==
    /\ LET new == NotOwned(new_channels, member.channels) IN
       member' = [member EXCEPT
           !.channels =
               IF member.sock # None /\ new # <<>> /\ ok THEN @ \o new ELSE @,
           !.channel_users =
               IF member.sock # None /\ new # <<>> /\ ok
               THEN ResetUsers(@, new) ELSE @,
           !.last = [op |-> "join", arg |-> new_channels, ok |-> ok,
                     found |-> Found(member),
                     puts |-> IF member.sock # None /\ new # <<>> /\ ok
                              THEN Len(new) + 1 ELSE 0],
           !.upper = @ \/ ~AllLower(new_channels)]
    /\ UNCHANGED <<limVars, sessVars, orchVars, sockVars, notMember>>

\* `self.channel_users.pop(clean, None)` for every name of the list
PopUsers(cu, list) ==
    [c \in DOMAIN cu \ {LowerChar(list[i]) : i \in DOMAIN list} |-> cu[c]]

\* part_channels, lines 116-130; ok: the PART sends returned (a raising
\* send is swallowed by lines 123-124)
PartChannels(channels_to_part, ok) ==
    /\ member' = [member EXCEPT
           !.channels =
               IF member.sock # None THEN Remaining(@, channels_to_part) ELSE @,
           !.channel_users =
               IF member.sock # None THEN PopUsers(@, channels_to_part) ELSE @,
           !.last = [op |-> "part", arg |-> channels_to_part, ok |-> ok,
                     found |-> Found(member),
                     puts |-> IF member.sock # None /\ ok
                              THEN Len(channels_to_part) ELSE 0],
           !.upper = @ \/ ~AllLower(channels_to_part)]
    /\ UNCHANGED <<limVars, sessVars, orchVars, sockVars, notMember>>

\* lines 346-347 and 395-396: a user is seen in a channel of the session
MemberSeen(c, u) ==
    /\ c \in DOMAIN member.channel_users
    /\ u \notin member.channel_users[c]
    /\ member' = [member EXCEPT !.channel_users = AddUser(@, c, u),
                                !.last = [op |-> "seen"]]
    /\ UNCHANGED <<limVars, sessVars, orchVars, sockVars, notMember>>

InitMember ==
    /\ member \in {NewMember(l) : l \in MemberLists}
    /\ LimIdle /\ SessIdle /\ OrchIdle /\ SockIdle /\ NotMemberIdle

NextMember ==
    \/ \E stage \in ConnectStages : MemberConnect(stage)
    \/ \E l \in MemberLists, ok \in BOOLEAN : JoinChannels(l, ok)
    \/ \E l \in MemberLists, ok \in BOOLEAN : PartChannels(l, ok)
    \/ \E c \in MemberNames, u \in MemberUsers : MemberSeen(c, u)

SpecMember == InitMember /\ [][NextMember]_vars

Keys(m) == DOMAIN m.channel_users

\* C35: as long as only lower-case names were given to the session, the
\* keys of channel_users are the names of the channel list.  join_channels
\* appends the names it was given that the session did not own, each with an
\* empty presence set, and leaves list and presence sets alone when there
\* is no socket or the JOIN send raised.  part_channels takes the given
\* names out of list and keys whether or not the PART sends raised, and
\* does nothing when there is no socket.
C35_KeysAreChannels ==
    LET l == member.last IN
    /\ ~member.upper => Keys(member) = Range(member.channels)
    /\ l.op = "join" =>
          IF l.found.sock = None \/ ~l.ok
          THEN /\ member.channels = l.found.channels
               /\ member.channel_users = l.found.channel_users
          ELSE /\ \E added \in MemberLists :
                    /\ member.channels = l.found.channels \o added
                    /\ Range(added) = Range(l.arg) \ Range(l.found.channels)
                    /\ \A c \in Range(added) :
                           member.channel_users[LowerChar(c)] = {}
               /\ \A c \in Keys(l.found) :
                      c \notin {LowerChar(x) : x \in Range(l.arg) \ Range(l.found.channels)}
                          => /\ c \in Keys(member)
                             /\ member.channel_users[c] = l.found.channel_users[c]
    /\ l.op = "part" =>
          IF l.found.sock = None
          THEN /\ member.channels = l.found.channels
               /\ member.channel_users = l.found.channel_users
          ELSE /\ Range(member.channels) = Range(l.found.channels) \ Range(l.arg)
               /\ Keys(member) = Keys(l.found) \ {LowerChar(x) : x \in Range(l.arg)}
               /\ \A c \in Keys(member) :
                      member.channel_users[c] = l.found.channel_users[c]

\* a connected session owning a, with a user seen there, was asked to join
\* a and b: b was appended with an empty presence set, a kept its user
C35_Witness ==
    /\ ~member.upper
    /\ member.last.op = "join" /\ member.last.ok
    /\ member.last.found.sock # None
    /\ member.last.found.channels = <<"a">>
    /\ member.last.arg = <<"a", "b">>
    /\ member.channels = <<"a", "b">>
    /\ member.channel_users = [c \in {"a", "b"} |-> IF c = "a" THEN {"u"} ELSE {}]

\* ---- the limiter's counters and timestamps
NonDecreasing(ev) == \A i \in 1..(Len(ev) - 1) : ev[i] <= ev[i + 1]

\* a call of allow() returned False
Rejected ==
    /\ limiter'.metrics.total_attempts = limiter.metrics.total_attempts + 1
    /\ limiter'.metrics.allowed_messages = limiter.metrics.allowed_messages

\* a call of allow() was refused by the minimum-delay test
RejectedByDelay ==
    /\ limiter'.metrics.total_attempts = limiter.metrics.total_attempts + 1
    /\ limiter'.metrics.min_delay_blocked = limiter.metrics.min_delay_blocked + 1

\* C36: in every limiter state total_attempts is the sum of
\* allowed_messages, rate_limited and min_delay_blocked, and the stored
\* timestamps are non-decreasing and at most `limit` many; a refused call
\* leaves last_message as it was, and a call refused by the minimum-delay
\* test leaves the timestamps as they were.
C36_LimiterCounters ==
    /\ [](/\ limiter.metrics.total_attempts =
                limiter.metrics.allowed_messages + limiter.metrics.rate_limited
                    + limiter.metrics.min_delay_blocked
          /\ NonDecreasing(limiter.events)
          /\ Len(limiter.events) <= limiter.limit)
    /\ [][/\ Rejected => limiter'.last_message = limiter.last_message
          /\ RejectedByDelay => limiter'.events = limiter.events]_vars

\* a call was refused by the minimum delay, which refuses calls now, while
\* the older of the two stored timestamps has left the window and is still
\* stored
C36_Witness ==
    /\ limiter.metrics.min_delay_blocked > 0
    /\ limiter.metrics.allowed_messages = 2
    /\ Len(limiter.events) = 2
    /\ now - limiter.last_message < limiter.min_delay
    /\ now - Head(limiter.events) > limiter.window

\* C37: no item a session took from the send queue is lost: it has been
\* written to the socket, or the session still holds it, or it is back on
\* the queue, so that it can still be written.
C37_NoLoss ==
    \A s \in DOMAIN sender :
        \A i \in DOMAIN sender[s].took :
            \/ sender[s].took[i] \in Range(WrittenBy(s))
            \/ sender[s].item = sender[s].took[i]
            \/ sender[s].took[i] \in Range(send_queue)

(***************************************************************************)
(*               QueueBridge.start, stop and the loop threads              *)
(* start() and stop() are called one after the other by one caller.  A     *)
(* loop thread is at "get" (gui_queue.get(timeout=0.1), which returns      *)
(* within the tenth of a second), in "dispatch" (_dispatch: print and      *)
(* socketio.emit, which take as long as the output and the server let      *)
(* them), or "exited".  stop() waits in join(timeout=2): it returns when   *)
(* the thread has ended, or after two seconds if a dispatch lasts longer.  *)
(***************************************************************************)
MaxStarts == 2             \* threads start() creates in a run

besideLife == <<limVars, sessVars, orchVars, sockVars, capVars, outVars,
                lockVars, closeVars, whisperVars, monVars, reqVars, rx,
                handled, sent, inflight, linkVars, botVars, memberVars>>

\* QueueBridge.__init__, lines 26-29
NewQueueBridge == [running |-> FALSE, thread |-> None, joining |-> FALSE]

LiveLoops == {t \in DOMAIN loops : loops[t] # "exited"}

StartAlways(running) == FALSE
\* `if self.running: return`
StartIsNoOp(running) == running

\* start(), lines 31-38
BridgeStart ==
    /\ ~qb.joining
    /\ Len(loops) < MaxStarts
    /\ IF StartIsNoOp(qb.running)
       THEN UNCHANGED <<qb, loops>>
       ELSE /\ qb' = [qb EXCEPT !.running = TRUE, !.thread = Len(loops) + 1]
            /\ loops' = Append(loops, "get")
    /\ UNCHANGED gui_queue
    /\ UNCHANGED <<arrived, bridge, emitted, dequeued>>
    /\ UNCHANGED besideLife

\* stop(), lines 42-44: the flag is cleared and the caller joins the thread
StopBegin ==
    /\ ~qb.joining
    /\ qb' = [qb EXCEPT !.running = FALSE, !.joining = qb.thread # None]
    /\ UNCHANGED <<loops, gui_queue>>
    /\ UNCHANGED <<arrived, bridge, emitted, dequeued>>
    /\ UNCHANGED besideLife

JoinOutcomes == {"ended", "timeout"}

\* join(timeout=2) returns
StopEnd(out) ==
    /\ qb.joining
    /\ out \in JoinOutcomes
    /\ IF out = "ended" THEN loops[qb.thread] = "exited"
       ELSE loops[qb.thread] = "dispatch"
    /\ qb' = [qb EXCEPT !.joining = FALSE]
    /\ UNCHANGED <<loops, gui_queue>>
    /\ UNCHANGED <<arrived, bridge, emitted, dequeued>>
    /\ UNCHANGED besideLife

\* `while self.running`
LoopGoesOn(running) == IF running THEN "get" ELSE "exited"

\* _poll_loop, line 55: get() returns an item or raises queue.Empty
LoopGet(t) ==
    /\ t \in DOMAIN loops
    /\ loops[t] = "get"
    /\ IF gui_queue # <<>>
       THEN /\ gui_queue' = Tail(gui_queue)
            /\ loops' = [loops EXCEPT ![t] = "dispatch"]
       ELSE /\ UNCHANGED gui_queue
            /\ loops' = [loops EXCEPT ![t] = LoopGoesOn(qb.running)]
    /\ UNCHANGED qb
    /\ UNCHANGED <<arrived, bridge, emitted, dequeued>>
    /\ UNCHANGED besideLife

\* line 56: _dispatch returns
LoopDispatched(t) ==
    /\ t \in DOMAIN loops
    /\ loops[t] = "dispatch"
    /\ loops' = [loops EXCEPT ![t] = LoopGoesOn(qb.running)]
    /\ UNCHANGED <<qb, gui_queue>>
    /\ UNCHANGED <<arrived, bridge, emitted, dequeued>>
    /\ UNCHANGED besideLife

InitLife ==
    /\ qb = NewQueueBridge
    /\ loops = <<>>
    /\ LimIdle /\ SessIdle /\ OrchIdle /\ SockIdle /\ NotLifeIdle

NextLife ==
    \/ BridgeStart
    \/ StopBegin
    \/ \E out \in JoinOutcomes : StopEnd(out)
    \/ \E t \in 1..MaxStarts : LoopGet(t)
    \/ \E t \in 1..MaxStarts : LoopDispatched(t)
    \/ \E item \in ProducerItems : QueuePut(item)

SpecLife == InitLife /\ [][NextLife]_vars

\* C39: at most one loop thread of the bridge is alive at any time, and a
\* start() on a running bridge changes nothing.
C39_OneLoop ==
    /\ [](Cardinality(LiveLoops) <= 1)
    /\ [][qb.running => (loops' = loops \/ Len(loops') = Len(loops))]_vars

(***************************************************************************)
(*                 The bridge loop and items it cannot route               *)
(* A queue item is written as the tuple of its elements; a Python object   *)
(* that is no tuple is written <<NonTuple>>.  The third element of an item *)
(* is a string (Str) or a dict (a record without the field str).           *)
(***************************************************************************)
NonTuple == "<no tuple>"

\* `isinstance(item, tuple)`, line 67
IsTuple(item) == item = <<>> \/ item[1] # NonTuple

\* the exception _dispatch raises on a tuple, or "none": item[0], item[1]
\* and item[2] (IndexError, lines 76-93), meta.get of a string
\* (AttributeError, line 125), text[:50] of a dict (TypeError, line 107),
\* and what socketio.emit raises when emit_ok is false
DispatchRaises(item, emit_ok) ==
    IF Len(item) = 0 THEN "IndexError"
    ELSE IF item[1] \in BridgeTags
    THEN IF Len(item) < 3 THEN "IndexError"
         ELSE IF item[1] = "GUI_UPDATE_META" /\ ~IsDict(item[3])
         THEN "AttributeError"
         ELSE IF emit_ok THEN "none" ELSE "EmitError"
    ELSE IF Len(item) = 3 /\ ~IsReserved(item[1])
    THEN IF IsDict(item[3]) THEN "TypeError"
         ELSE IF emit_ok THEN "none" ELSE "EmitError"
    ELSE "none"

CaughtEmptyOnly(exc) == exc = "Empty"
\* the handlers of _poll_loop, lines 57-59: `except queue.Empty` and
\* `except Exception`, of which every exception above is a subclass
Caught(exc) ==
    exc = "Empty" \/ exc \in {"IndexError", "AttributeError", "TypeError", "EmitError"}

\* lines 56-60: _dispatch(item) and what the loop does with its exception
SafeDispatch(item, t, emit_ok) ==
    IF ~IsTuple(item) THEN [out |-> <<>>, raised |-> "none", pc |-> "get"]
    ELSE LET exc == DispatchRaises(item, emit_ok)
         IN  IF exc = "none"
             THEN [out |-> BridgeDispatch(item, t), raised |-> exc, pc |-> "get"]
             ELSE [out |-> <<>>, raised |-> exc,
                   pc |-> IF Caught(exc) THEN "get" ELSE "died"]

\* _poll_loop, lines 52-60, with an item on the queue
PollAny(emit_ok) ==
    /\ bridge.pc = "get"
    /\ gui_queue # <<>>
    /\ LET item == NextItem(gui_queue)
           d    == SafeDispatch(item, now, emit_ok)
       IN  /\ gui_queue' = Tail(gui_queue)
           /\ emitted' = emitted \o d.out
           /\ dequeued' = Append(dequeued, [item |-> item, out |-> d.out,
                                            raised |-> d.raised])
           /\ bridge' = [bridge EXCEPT !.pc =
                            IF d.pc = "get" THEN LoopGoesOn(bridge.running)
                            ELSE d.pc]
    /\ UNCHANGED arrived
    /\ UNCHANGED besideBridge

\* items no producer of the program puts
BadItems ==
    {<<NonTuple>>, <<>>, <<"GUI_UPDATE_META">>, <<"foo">>,
     <<"ONLINE_PROMPT", "SYSTEM">>, <<"foo", "CHAT">>,
     <<"GUI_UPDATE_META", "foo", Str("chess")>>,
     <<"foo", "CHAT", LiveData("foo", None)>>}

GoodItems ==
    {<<"foo", "CHAT", Str("alice: hi")>>,
     <<"GUI_JOIN_NOW", "SYSTEM", Str("bar")>>,
     <<"GUI_UPDATE_META", "foo", LiveData("foo", 1)>>,
     <<"SYSTEM", "SYSTEM", Str("Shard shard_0 connected to 1 channels")>>}

NextBadItems ==
    \/ \E item \in BadItems \cup GoodItems : QueuePut(item)
    \/ \E emit_ok \in BOOLEAN : PollAny(emit_ok)
    \/ PollEmpty
    \/ BridgeStop

SpecBadItems == InitBridge /\ [][NextBadItems]_vars

\* the i-th dequeued item was skipped: nothing was emitted for it
SkippedItem(i) == dequeued[i].out = <<>>

\* C40: no item ends the bridge loop: the loop leaves gui_queue.get only
\* after stop was requested; a non-tuple item, a tuple too short for its
\* tag and an item whose dispatch raises produce no emission; the items are
\* dequeued in their order of arrival, and every routable item whose
\* emission succeeds is emitted whatever came before it.
C40_LoopSurvives ==
    /\ bridge.pc # "died"
    /\ bridge.running => bridge.pc = "get"
    /\ Len(dequeued) <= Len(arrived)
    /\ \A i \in DOMAIN dequeued :
        /\ dequeued[i].item = arrived[i]
        /\ (dequeued[i].item \in BadItems \/ dequeued[i].raised # "none")
               => SkippedItem(i)
        /\ (dequeued[i].item \in GoodItems /\ dequeued[i].raised = "none"
                /\ ~IsReserved(dequeued[i].item[1]))
               => Len(dequeued[i].out) = 1
    /\ Len(emitted) = Cardinality({i \in DOMAIN dequeued : ~SkippedItem(i)})

C40_Witness ==
    /\ bridge.running
    /\ Len(dequeued) = 3
    /\ ~IsTuple(dequeued[1].item)
    /\ dequeued[2].raised = "IndexError"
    /\ dequeued[3].item \in GoodItems
    /\ Len(dequeued[3].out) = 1
====
